---- MODULE Spec2Model ----
(***************************************************************************)
(* Runtime of compiled Soy templates (python/runtime.py, python/bidi.py):  *)
(* the delegate registry and the BidiFormatter cache.                      *)
(*                                                                         *)
(* Spec      : register_delegate_fn / get_delegate_fn called one at a time *)
(* SpecOrder : one set of register calls run in two orders                 *)
(* SpecConc  : register_delegate_fn / get_delegate_fn run by threads       *)
(* SpecBidi  : _get_bidi_formatter run by threads                          *)
(***************************************************************************)
EXTENDS Integers, Sequences, FiniteSets, TLC

VARIABLES
  registry,   \* _DELEGATE_REGISTRY: dict from map key to (priority, fn, fn_name)
  seen,       \* history: map key -> the priorities passed to register_delegate_fn
  last,       \* the last call made: its arguments and how it ended
  order,      \* SpecOrder: the batch of calls and the two runs over it
  rthreads,   \* SpecConc: per thread, the position in the call and its locals
  instances,  \* BidiFormatter.instances: dict from global_dir to formatter
  bthreads    \* SpecBidi: per thread, the position in _get_bidi_formatter

vars == <<registry, seen, last, order, rthreads, instances, bthreads>>

----------------------------------------------------------------------------
(* Bounds of the model.                                                    *)

MaxPriority == 2
MaxBatch == 2
NumRegThreads == 2
NumBidiThreads == 2
MaxEscapeLen == 3
MaxFilterLen == 3
MaxArgs == 3

----------------------------------------------------------------------------
(* Values.                                                                 *)

\* A variant is a string or, when a global is used, a number; text is what
\* '%s' % variant gives.
StrV(s) == [num |-> FALSE, text |-> s]
NumV(s) == [num |-> TRUE, text |-> s]

\* Python truth value of a variant: '' and 0 are false.
Truthy(variant) == IF variant.num THEN variant.text # "0" ELSE variant.text # ""

EmptyVariant == StrV("")

\* Keys that register_delegate_fn is called with.
RegIds == {"t"}
RegVariants == {StrV(""), StrV("v")}

\* Keys that get_delegate_fn is called with: registered and unregistered ids,
\* registered and unregistered variants, numeric variants.
Ids == {"t", "u"}
Variants == {StrV(""), StrV("v"), StrV("w"), NumV("0"), NumV("5")}

Priorities == 0..MaxPriority

\* Template functions (always true as Python objects) and their names.
Fns == {"fnA", "fnB"}
FnNames == {"nameA", "nameB"}

\* What dict.get gives for a missing key: None, or the (None, None, None) default.
NoEntry == <<>>
NoFn == "None"

\* runtime._empty_template_function and what it returns.
EmptyTemplateFunction == "_empty_template_function"
EmptyTemplateOutput == ""

----------------------------------------------------------------------------
(* Pure functions of runtime.py.                                           *)

\* 'key_%s:%s' % (template_id, variant)
GenDelegateId(template_id, variant) ==
  "key_" \o template_id \o ":" \o variant.text

\* _DELEGATE_REGISTRY.get(map_key), with NoEntry standing for the default.
Get(reg, map_key) == IF map_key \in DOMAIN reg THEN reg[map_key] ELSE NoEntry

\* _DELEGATE_REGISTRY[map_key] = entry
Put(reg, map_key, entry) ==
  [k \in DOMAIN reg \cup {map_key} |-> IF k = map_key THEN entry ELSE reg[k]]

RegisterFn_FirstWins(reg, template_id, variant, priority, fn, fn_name) ==
  LET map_key == GenDelegateId(template_id, variant)
      curr == Get(reg, map_key)
  IN  IF curr = NoEntry
        THEN [reg |-> Put(reg, map_key, <<priority, fn, fn_name>>), raised |-> FALSE]
        ELSE IF priority = curr[1] /\ fn_name # curr[3]
          THEN [reg |-> reg, raised |-> TRUE]
          ELSE [reg |-> reg, raised |-> FALSE]

RegisterFn_TieReplaces(reg, template_id, variant, priority, fn, fn_name) ==
  LET map_key == GenDelegateId(template_id, variant)
      curr == Get(reg, map_key)
  IN  IF curr = NoEntry \/ priority >= curr[1]
        THEN [reg |-> Put(reg, map_key, <<priority, fn, fn_name>>), raised |-> FALSE]
        ELSE [reg |-> reg, raised |-> FALSE]

RegisterFn_LastWins(reg, template_id, variant, priority, fn, fn_name) ==
  LET map_key == GenDelegateId(template_id, variant)
  IN  [reg |-> Put(reg, map_key, <<priority, fn, fn_name>>), raised |-> FALSE]

\* register_delegate_fn, runtime.py:343-351: with curr the entry read at
\* runtime.py:340, the registry after the call and whether it raised
\* RuntimeError.
RegisterDecide(reg, map_key, curr, priority, fn, fn_name) ==
  IF curr = NoEntry \/ priority > curr[1]
    THEN [reg |-> Put(reg, map_key, <<priority, fn, fn_name>>), raised |-> FALSE]
    ELSE IF priority = curr[1] /\ fn_name # curr[3]
      THEN [reg |-> reg, raised |-> TRUE]
      ELSE [reg |-> reg, raised |-> FALSE]

\* register_delegate_fn run without interruption: the registry after the
\* call, and whether it raised RuntimeError.
RegisterFn(reg, template_id, variant, priority, fn, fn_name) ==
  LET map_key == GenDelegateId(template_id, variant)
  IN  RegisterDecide(reg, map_key, Get(reg, map_key), priority, fn, fn_name)

\* The message of the RuntimeError of get_delegate_fn: the format string and
\* the values substituted for its two %s.
NoImplMessage(template_id, variant) ==
  [fmt  |-> "Found no active impl for delegate call to \"%s%s\" (and delcall does not set allowemptydefault=\"true\").",
   args |-> <<template_id, IF Truthy(variant) THEN ":" \o variant.text ELSE "">>]

GetDelegateFn_DefaultFirst(reg, template_id, variant, allow_empty_default) ==
  LET entry == Get(reg, GenDelegateId(template_id, EmptyVariant))
      exact == Get(reg, GenDelegateId(template_id, variant))
  IN  IF entry # NoEntry THEN [kind |-> "return", fn |-> entry[2]]
      ELSE IF exact # NoEntry THEN [kind |-> "return", fn |-> exact[2]]
      ELSE [kind |-> "return", fn |-> EmptyTemplateFunction]

\* get_delegate_fn: what the call returns or raises.
GetDelegateFn(reg, template_id, variant, allow_empty_default) ==
  LET entry  == Get(reg, GenDelegateId(template_id, variant))
      fn     == IF entry # NoEntry THEN entry[2] ELSE NoFn
      entry2 == Get(reg, GenDelegateId(template_id, EmptyVariant))
      fn2    == IF fn = NoFn /\ Truthy(variant)
                  THEN (IF entry2 # NoEntry THEN entry2[2] ELSE NoFn)
                  ELSE fn
  IN  IF fn2 # NoFn THEN [kind |-> "return", fn |-> fn2]
      ELSE IF allow_empty_default
        THEN [kind |-> "return", fn |-> EmptyTemplateFunction]
      \* ':' + variant with a number for variant
      ELSE IF Truthy(variant) /\ variant.num THEN [kind |-> "TypeError"]
      ELSE [kind |-> "RuntimeError", msg |-> NoImplMessage(template_id, variant)]

----------------------------------------------------------------------------
(* Spec: the calls made one at a time.                                     *)

InitRegistry ==
  /\ registry = [k \in {} |-> NoEntry]
  /\ seen = [k \in {} |-> {}]
  /\ last = [op |-> "none"]

IdleOrder == [batch |-> {}, phase |-> "off", first |-> <<>>, second |-> <<>>]
IdleRThreads == <<>>
IdleInstances == <<>>
IdleBThreads == <<>>

RestIdle ==
  /\ order = IdleOrder
  /\ rthreads = IdleRThreads
  /\ instances = IdleInstances
  /\ bthreads = IdleBThreads

Init == InitRegistry /\ RestIdle

Register ==
  \E template_id \in RegIds, variant \in RegVariants, priority \in Priorities,
     fn \in Fns, fn_name \in FnNames :
    LET r == RegisterFn(registry, template_id, variant, priority, fn, fn_name)
        map_key == GenDelegateId(template_id, variant)
    IN  /\ registry' = r.reg
        /\ seen' = [k \in DOMAIN seen \cup {map_key} |->
                      IF k = map_key
                        THEN (IF k \in DOMAIN seen THEN seen[k] ELSE {}) \cup {priority}
                        ELSE seen[k]]
        /\ last' = [op |-> "register", template_id |-> template_id,
                    variant |-> variant, priority |-> priority, fn |-> fn,
                    fn_name |-> fn_name, curr |-> Get(registry, map_key),
                    raised |-> r.raised]
        /\ UNCHANGED <<order, rthreads, instances, bthreads>>

Resolve ==
  \E template_id \in Ids, variant \in Variants, allow_empty_default \in BOOLEAN :
    /\ last' = [op |-> "resolve", template_id |-> template_id,
                variant |-> variant, allow_empty_default |-> allow_empty_default,
                result |-> GetDelegateFn(registry, template_id, variant,
                                         allow_empty_default)]
    /\ UNCHANGED <<registry, seen, order, rthreads, instances, bthreads>>

Next == Register \/ Resolve

Spec == Init /\ [][Next]_vars

----------------------------------------------------------------------------
(* The delegate registry, calls made one at a time.                        *)

Max(S) == CHOOSE x \in S : \A y \in S : y <= x

LastKey == GenDelegateId(last.template_id, last.variant)
LastEntry == <<last.priority, last.fn, last.fn_name>>

\* C1: a register_delegate_fn call on a key with no entry, or with a priority
\* strictly greater than the stored one, does not raise, makes the entry of
\* that key exactly (priority, fn, fn_name) and leaves every other key as it
\* was.
C1_RegisterReplaces ==
  [][ (/\ last'.op = "register"
       /\ LET curr == Get(registry, LastKey')
          IN  curr = NoEntry \/ last'.priority > curr[1])
      => /\ ~last'.raised
         /\ DOMAIN registry' = DOMAIN registry \cup {LastKey'}
         /\ registry'[LastKey'] = LastEntry'
         /\ \A k \in DOMAIN registry \ {LastKey'} : registry'[k] = registry[k]
    ]_vars

\* A higher-priority registration has just replaced an entry, with another
\* key registered too.
C1_Witness ==
  /\ last.op = "register"
  /\ last.curr # NoEntry
  /\ last.priority > last.curr[1]
  /\ last.fn # last.curr[2]
  /\ registry[LastKey] = LastEntry
  /\ Cardinality(DOMAIN registry) = 2

\* C2: a register_delegate_fn call with the stored priority and a name other
\* than the stored one raises RuntimeError and leaves the registry as it was.
C2_TieConflictRaises ==
  [][ (/\ last'.op = "register"
       /\ LET curr == Get(registry, LastKey')
          IN  /\ curr # NoEntry
              /\ last'.priority = curr[1]
              /\ last'.fn_name # curr[3])
      => last'.raised /\ registry' = registry
    ]_vars

C2_Witness ==
  /\ last.op = "register"
  /\ last.raised
  /\ last.curr # NoEntry
  /\ last.priority = last.curr[1]
  /\ last.fn_name # last.curr[3]
  /\ registry[LastKey] = last.curr

\* C3: a register_delegate_fn call with the stored priority and the stored
\* name (whatever its fn), or with a priority below the stored one, raises
\* nothing and leaves the registry as it was; and doing any registration
\* again right after it leaves the registry as the first call left it.
C3_LosingRegisterIsNoOp ==
  [][ /\ (/\ last'.op = "register"
          /\ LET curr == Get(registry, LastKey')
             IN  /\ curr # NoEntry
                 /\ \/ last'.priority = curr[1] /\ last'.fn_name = curr[3]
                    \/ last'.priority < curr[1])
         => ~last'.raised /\ registry' = registry
      /\ last'.op = "register"
         => RegisterFn(registry', last'.template_id, last'.variant,
                       last'.priority, last'.fn, last'.fn_name).reg = registry'
    ]_vars

\* The stored name has just been registered again at the stored priority with
\* another fn.
C3_Witness ==
  /\ last.op = "register"
  /\ ~last.raised
  /\ last.curr # NoEntry
  /\ last.priority = last.curr[1]
  /\ last.fn_name = last.curr[3]
  /\ last.fn # last.curr[2]
  /\ registry[LastKey] = last.curr

\* C4: the registry holds one entry for exactly the keys that were ever
\* registered, and the stored priority of a key is the greatest priority
\* ever passed to register_delegate_fn for it, raising calls included.
C4_StoredPriorityIsMax ==
  /\ DOMAIN registry = DOMAIN seen
  /\ \A k \in DOMAIN registry :
       /\ registry[k] \in Priorities \X Fns \X FnNames
       /\ registry[k][1] = Max(seen[k])

\* A call has just raised on a key that has seen several priorities.
C4_Witness ==
  /\ last.op = "register"
  /\ last.raised
  /\ Cardinality(seen[LastKey]) >= 2
  /\ last.priority = Max(seen[LastKey])

\* C5: a key that is registered stays registered, and its stored priority
\* never goes down, whatever call is made next.
C5_RegisteredStaysRegistered ==
  [][ \A k \in DOMAIN registry :
        /\ k \in DOMAIN registry'
        /\ registry'[k][1] >= registry[k][1]
    ]_vars

\* A lower priority has just been registered on a registered key.
C5_Witness ==
  /\ last.op = "register"
  /\ last.curr # NoEntry
  /\ last.priority < last.curr[1]
  /\ LastKey \in DOMAIN registry
  /\ registry[LastKey][1] = last.curr[1]

\* C7: get_delegate_fn returns the fn stored under the exact key whenever
\* that key is registered, whatever is stored under (id, ''); and when it
\* returns a registered fn with the exact key absent, the variant is not
\* empty and the fn is the one stored under (id, '').
C7_ExactKeyFirst ==
  last.op = "resolve" =>
    LET exact == Get(registry, GenDelegateId(last.template_id, last.variant))
        dflt  == Get(registry, GenDelegateId(last.template_id, EmptyVariant))
    IN  /\ exact # NoEntry
           => last.result = [kind |-> "return", fn |-> exact[2]]
        /\ (exact = NoEntry /\ last.result.kind = "return"
              /\ last.result.fn \in Fns)
           => /\ last.variant.text # ""
              /\ dflt # NoEntry
              /\ last.result.fn = dflt[2]

\* The exact key was resolved while (id, '') holds another fn at a higher
\* priority.
C7_Witness ==
  /\ last.op = "resolve"
  /\ last.variant # EmptyVariant
  /\ LET exact == Get(registry, GenDelegateId(last.template_id, last.variant))
         dflt  == Get(registry, GenDelegateId(last.template_id, EmptyVariant))
     IN  /\ exact # NoEntry
         /\ dflt # NoEntry
         /\ dflt[1] > exact[1]
         /\ dflt[2] # exact[2]
         /\ last.result.fn = exact[2]

\* C8: with neither (id, variant) nor (id, '') registered, get_delegate_fn
\* returns the empty template function when allow_empty_default is true, and
\* otherwise raises RuntimeError with a message that holds the id and the
\* variant.
C8_NoImplOutcome ==
  (/\ last.op = "resolve"
   /\ Get(registry, GenDelegateId(last.template_id, last.variant)) = NoEntry
   /\ Get(registry, GenDelegateId(last.template_id, EmptyVariant)) = NoEntry)
  => IF last.allow_empty_default
       THEN /\ last.result = [kind |-> "return", fn |-> EmptyTemplateFunction]
            /\ EmptyTemplateOutput = ""
       ELSE /\ last.result.kind = "RuntimeError"
            /\ last.result.msg.args[1] = last.template_id
            /\ last.variant.text # ""
               => last.result.msg.args[2] = ":" \o last.variant.text

----------------------------------------------------------------------------
(* SpecOrder: one set of register_delegate_fn calls on the key ('t', ''),  *)
(* run from an empty registry in one order and then, from an empty         *)
(* registry again, in another; a call that raises is passed over.          *)

OrderId == "t"
OrderVariant == EmptyVariant

OrderCalls == [priority : Priorities, fn : Fns, fn_name : FnNames]

NewRun(batch) == [reg |-> [k \in {} |-> NoEntry], pending |-> batch, trace |-> <<>>]

\* One more call of the run: any call of the batch not yet made.
RunStep(run, c) ==
  [reg     |-> RegisterFn(run.reg, OrderId, OrderVariant, c.priority, c.fn,
                          c.fn_name).reg,
   pending |-> run.pending \ {c},
   trace   |-> Append(run.trace, c)]

InitOrder ==
  /\ InitRegistry
  /\ rthreads = IdleRThreads
  /\ instances = IdleInstances
  /\ bthreads = IdleBThreads
  /\ \E batch \in SUBSET OrderCalls :
       /\ Cardinality(batch) \in 1..MaxBatch
       /\ order = [batch |-> batch, phase |-> "first",
                   first |-> NewRun(batch), second |-> NewRun(batch)]

OrderFirst ==
  /\ order.phase = "first"
  /\ \E c \in order.first.pending :
       LET run == RunStep(order.first, c)
       IN  order' = [order EXCEPT !.first = run,
                       !.phase = IF run.pending = {} THEN "second" ELSE "first"]
  /\ UNCHANGED <<registry, seen, last, rthreads, instances, bthreads>>

OrderSecond ==
  /\ order.phase = "second"
  /\ \E c \in order.second.pending :
       LET run == RunStep(order.second, c)
       IN  order' = [order EXCEPT !.second = run,
                       !.phase = IF run.pending = {} THEN "done" ELSE "second"]
  /\ UNCHANGED <<registry, seen, last, rthreads, instances, bthreads>>

NextOrder == OrderFirst \/ OrderSecond

SpecOrder == InitOrder /\ [][NextOrder]_vars

\* What get_delegate_fn returns for the key after a run.
Winner(run) == GetDelegateFn(run.reg, OrderId, OrderVariant, FALSE)

\* The fns passed by the calls of the greatest priority of a batch.
TopFns(batch) ==
  {c.fn : c \in {d \in batch : \A e \in batch : e.priority <= d.priority}}

\* C6 as claimed: after the same set of register_delegate_fn calls on one
\* key, made in any two orders, get_delegate_fn returns the same fn.
C6_OrderIndependent ==
  order.phase = "done" => Winner(order.first) = Winner(order.second)

\* C6: after a set of register_delegate_fn calls on one key whose calls of
\* the greatest priority all pass the same fn, made in any two orders,
\* get_delegate_fn returns that fn.
C6_OrderIndependentWithoutTie ==
  (order.phase = "done" /\ Cardinality(TopFns(order.batch)) = 1)
  => /\ Winner(order.first) = Winner(order.second)
     /\ Winner(order.first).kind = "return"
     /\ Winner(order.first).fn \in TopFns(order.batch)

\* Two calls with different priorities and fns were made in both orders.
C6_Witness ==
  /\ order.phase = "done"
  /\ Cardinality(order.batch) = 2
  /\ Cardinality(TopFns(order.batch)) = 1
  /\ \E c, d \in order.batch : c.priority < d.priority /\ c.fn # d.fn
  /\ order.first.trace # order.second.trace
  /\ Winner(order.first) = Winner(order.second)

----------------------------------------------------------------------------
(* SpecConc: register_delegate_fn run by threads on the key ('t', '').     *)
(* The function takes no lock: its read of the registry (runtime.py:340)   *)
(* and its write (runtime.py:346) are two steps, and another thread may    *)
(* run between them.  get_delegate_fn on that key is one read.             *)

RegThreads == 1..NumRegThreads

ConcKey == GenDelegateId(OrderId, OrderVariant)

InitConc ==
  /\ InitRegistry
  /\ order = IdleOrder
  /\ instances = IdleInstances
  /\ bthreads = IdleBThreads
  /\ rthreads = [t \in RegThreads |-> [pc |-> "call"]]

\* runtime.py:339-341: the call is made and reads the current entry.
ConcRead(t) ==
  /\ rthreads[t].pc = "call"
  /\ \E c \in OrderCalls :
       rthreads' = [rthreads EXCEPT ![t] =
                      [pc |-> "decide", call |-> c, curr |-> Get(registry, ConcKey)]]
  /\ UNCHANGED <<registry, seen, last, order, instances, bthreads>>

\* runtime.py:344-351: the entry read before decides; the write, or the raise.
ConcWrite(t) ==
  /\ rthreads[t].pc = "decide"
  /\ LET c == rthreads[t].call
         r == RegisterDecide(registry, ConcKey, rthreads[t].curr, c.priority,
                             c.fn, c.fn_name)
     IN  /\ registry' = r.reg
         /\ rthreads' = [rthreads EXCEPT ![t] =
                           [pc |-> "done", call |-> c, raised |-> r.raised]]
  /\ UNCHANGED <<seen, last, order, instances, bthreads>>

\* get_delegate_fn('t', '', allow_empty_default) by any other thread.
ConcResolve ==
  /\ \E allow_empty_default \in BOOLEAN :
       last' = [op |-> "resolve", template_id |-> OrderId,
                variant |-> OrderVariant,
                allow_empty_default |-> allow_empty_default,
                result |-> GetDelegateFn(registry, OrderId, OrderVariant,
                                         allow_empty_default)]
  /\ UNCHANGED <<registry, seen, order, rthreads, instances, bthreads>>

NextConc ==
  \/ \E t \in RegThreads : ConcRead(t)
  \/ \E t \in RegThreads : ConcWrite(t)
  \/ ConcResolve

SpecConc == InitConc /\ [][NextConc]_vars

ConcDone == \A t \in RegThreads : rthreads[t].pc = "done"

\* C9: when the concurrent register_delegate_fn calls on one key have all
\* returned, the stored priority is the greatest priority registered, and
\* two calls of that priority with different names have not both gone
\* through without a conflict error.
C9_ConcurrentRegisterSerial ==
  ConcDone =>
    LET top == Max({rthreads[t].call.priority : t \in RegThreads})
    IN  /\ registry[ConcKey][1] = top
        /\ \A t, u \in RegThreads :
             (/\ rthreads[t].call.priority = top
              /\ rthreads[u].call.priority = top
              /\ rthreads[t].call.fn_name # rthreads[u].call.fn_name)
             => rthreads[t].raised \/ rthreads[u].raised

----------------------------------------------------------------------------
(* SpecBidi: _get_bidi_formatter run by threads, one call each.            *)

\* sanitize.DIR
DIR_LTR == 1
DIR_RTL == -1
DIR_NEUTRAL == 0

BidiThreads == 1..NumBidiThreads

\* global_dir: 1 if ltr, -1 if rtl, 0 if unknown; any other integer is taken
\* by its sign.
GlobalDirs == {-2, -1, 0, 1, 2}

BidiFormatterInit_NoNeutral(global_dir) ==
  IF global_dir < 0 THEN DIR_RTL ELSE DIR_LTR

\* BidiFormatter.__init__: the direction of the new formatter.
BidiFormatterInit(global_dir) ==
  IF global_dir > 0 THEN DIR_LTR
  ELSE IF global_dir < 0 THEN DIR_RTL
  ELSE DIR_NEUTRAL

NoFormatter == <<>>

\* BidiFormatter.instances.get(global_dir)
InstancesGet(global_dir) ==
  IF global_dir \in DOMAIN instances THEN instances[global_dir] ELSE NoFormatter

InitBidi ==
  /\ InitRegistry
  /\ order = IdleOrder
  /\ rthreads = IdleRThreads
  /\ instances = [g \in {} |-> NoFormatter]
  /\ bthreads = [t \in BidiThreads |-> [pc |-> "call"]]

\* bidi.py:490-491: the call is made, reads the cache and tests what it got.
BidiGet(t) ==
  /\ bthreads[t].pc = "call"
  /\ \E global_dir \in GlobalDirs :
       LET formatter == InstancesGet(global_dir)
       IN  bthreads' = [bthreads EXCEPT ![t] =
                          [pc |-> IF formatter = NoFormatter
                                    THEN "construct" ELSE "return",
                           global_dir |-> global_dir, formatter |-> formatter]]
  /\ UNCHANGED <<registry, seen, last, order, rthreads, instances>>

\* bidi.py:492, right-hand side: a new BidiFormatter object, named here by
\* the thread that made it.
BidiConstruct(t) ==
  /\ bthreads[t].pc = "construct"
  /\ bthreads' = [bthreads EXCEPT ![t].pc = "store",
                    ![t].formatter =
                      [direction |-> BidiFormatterInit(bthreads[t].global_dir),
                       object |-> t]]
  /\ UNCHANGED <<registry, seen, last, order, rthreads, instances>>

\* bidi.py:492: BidiFormatter.instances[global_dir] = the new object.
BidiStore(t) ==
  /\ bthreads[t].pc = "store"
  /\ instances' = [g \in DOMAIN instances \cup {bthreads[t].global_dir} |->
                     IF g = bthreads[t].global_dir
                       THEN bthreads[t].formatter ELSE instances[g]]
  /\ bthreads' = [bthreads EXCEPT ![t].pc = "return"]
  /\ UNCHANGED <<registry, seen, last, order, rthreads>>

\* bidi.py:493
BidiReturn(t) ==
  /\ bthreads[t].pc = "return"
  /\ bthreads' = [bthreads EXCEPT ![t].pc = "done"]
  /\ UNCHANGED <<registry, seen, last, order, rthreads, instances>>

NextBidi ==
  \/ \E t \in BidiThreads : BidiGet(t)
  \/ \E t \in BidiThreads : BidiConstruct(t)
  \/ \E t \in BidiThreads : BidiStore(t)
  \/ \E t \in BidiThreads : BidiReturn(t)

SpecBidi == InitBidi /\ [][NextBidi]_vars

Sign(n) == IF n > 0 THEN DIR_LTR ELSE IF n < 0 THEN DIR_RTL ELSE DIR_NEUTRAL

\* C10: whatever the interleaving, every _get_bidi_formatter(global_dir)
\* call returns a formatter whose direction is the sign of its global_dir,
\* every formatter cached under a key has the direction of the sign of the
\* key, and two calls with the same global_dir return formatters of the same
\* direction even when they return two objects.
C10_LazyCacheSafe ==
  /\ \A g \in DOMAIN instances : instances[g].direction = Sign(g)
  /\ \A t \in BidiThreads :
       bthreads[t].pc = "done"
       => /\ bthreads[t].formatter # NoFormatter
          /\ bthreads[t].formatter.direction = Sign(bthreads[t].global_dir)
  /\ \A t, u \in BidiThreads :
       (/\ bthreads[t].pc = "done"
        /\ bthreads[u].pc = "done"
        /\ bthreads[t].global_dir = bthreads[u].global_dir)
       => bthreads[t].formatter.direction = bthreads[u].formatter.direction

\* Two calls with global_dir 0 both found the cache empty, both constructed,
\* and returned two objects.
C10_Witness ==
  \E t, u \in BidiThreads :
    /\ bthreads[t].pc = "done"
    /\ bthreads[u].pc = "done"
    /\ bthreads[t].global_dir = 0
    /\ bthreads[u].global_dir = 0
    /\ bthreads[t].formatter.object # bthreads[u].formatter.object
    /\ instances[0].direction = DIR_NEUTRAL

----------------------------------------------------------------------------
(* generated_sanitize.py: the escapers.  A character is its code point and *)
(* a string is the sequence of its characters.                             *)

\* _ESCAPE_MAP_FOR_ESCAPE_HTML... (generated_sanitize.py:25-46)
ESCAPE_MAP_FOR_ESCAPE_HTML__AND__NORMALIZE_HTML__AND__ESCAPE_HTML_NOSPACE__AND__NORMALIZE_HTML_NOSPACE ==
     0 :> <<38, 35, 48, 59>>                 \* U+0000 -> &#0;
  @@ 9 :> <<38, 35, 57, 59>>                 \* U+0009 -> &#9;
  @@ 10 :> <<38, 35, 49, 48, 59>>            \* U+000A -> &#10;
  @@ 11 :> <<38, 35, 49, 49, 59>>            \* U+000B -> &#11;
  @@ 12 :> <<38, 35, 49, 50, 59>>            \* U+000C -> &#12;
  @@ 13 :> <<38, 35, 49, 51, 59>>            \* U+000D -> &#13;
  @@ 32 :> <<38, 35, 51, 50, 59>>            \* SP -> &#32;
  @@ 34 :> <<38, 113, 117, 111, 116, 59>>    \* U+0022 -> &quot;
  @@ 38 :> <<38, 97, 109, 112, 59>>          \* & -> &amp;
  @@ 39 :> <<38, 35, 51, 57, 59>>            \* ' -> &#39;
  @@ 45 :> <<38, 35, 52, 53, 59>>            \* - -> &#45;
  @@ 47 :> <<38, 35, 52, 55, 59>>            \* / -> &#47;
  @@ 60 :> <<38, 108, 116, 59>>              \* < -> &lt;
  @@ 61 :> <<38, 35, 54, 49, 59>>            \* = -> &#61;
  @@ 62 :> <<38, 103, 116, 59>>              \* > -> &gt;
  @@ 96 :> <<38, 35, 57, 54, 59>>            \* ` -> &#96;
  @@ 133 :> <<38, 35, 49, 51, 51, 59>>       \* U+0085 -> &#133;
  @@ 160 :> <<38, 35, 49, 54, 48, 59>>       \* U+00A0 -> &#160;
  @@ 8232 :> <<38, 35, 56, 50, 51, 50, 59>>  \* U+2028 -> &#8232;
  @@ 8233 :> <<38, 35, 56, 50, 51, 51, 59>>  \* U+2029 -> &#8233;

\* _ESCAPE_MAP_FOR_ESCAPE_JS_STRING... (generated_sanitize.py:52-87)
ESCAPE_MAP_FOR_ESCAPE_JS_STRING__AND__ESCAPE_JS_REGEX ==
     0 :> <<92, 120, 48, 48>>             \* U+0000 -> U+005Cx00
  @@ 8 :> <<92, 120, 48, 56>>             \* U+0008 -> U+005Cx08
  @@ 9 :> <<92, 116>>                     \* U+0009 -> U+005Ct
  @@ 10 :> <<92, 110>>                    \* U+000A -> U+005Cn
  @@ 11 :> <<92, 120, 48, 98>>            \* U+000B -> U+005Cx0b
  @@ 12 :> <<92, 102>>                    \* U+000C -> U+005Cf
  @@ 13 :> <<92, 114>>                    \* U+000D -> U+005Cr
  @@ 34 :> <<92, 120, 50, 50>>            \* U+0022 -> U+005Cx22
  @@ 36 :> <<92, 120, 50, 52>>            \* $ -> U+005Cx24
  @@ 38 :> <<92, 120, 50, 54>>            \* & -> U+005Cx26
  @@ 39 :> <<92, 120, 50, 55>>            \* ' -> U+005Cx27
  @@ 40 :> <<92, 120, 50, 56>>            \* ( -> U+005Cx28
  @@ 41 :> <<92, 120, 50, 57>>            \* ) -> U+005Cx29
  @@ 42 :> <<92, 120, 50, 97>>            \* * -> U+005Cx2a
  @@ 43 :> <<92, 120, 50, 98>>            \* + -> U+005Cx2b
  @@ 44 :> <<92, 120, 50, 99>>            \* , -> U+005Cx2c
  @@ 45 :> <<92, 120, 50, 100>>           \* - -> U+005Cx2d
  @@ 46 :> <<92, 120, 50, 101>>           \* . -> U+005Cx2e
  @@ 47 :> <<92, 47>>                     \* / -> U+005C/
  @@ 58 :> <<92, 120, 51, 97>>            \* : -> U+005Cx3a
  @@ 60 :> <<92, 120, 51, 99>>            \* < -> U+005Cx3c
  @@ 61 :> <<92, 120, 51, 100>>           \* = -> U+005Cx3d
  @@ 62 :> <<92, 120, 51, 101>>           \* > -> U+005Cx3e
  @@ 63 :> <<92, 120, 51, 102>>           \* ? -> U+005Cx3f
  @@ 91 :> <<92, 120, 53, 98>>            \* [ -> U+005Cx5b
  @@ 92 :> <<92, 92>>                     \* U+005C -> U+005CU+005C
  @@ 93 :> <<92, 120, 53, 100>>           \* ] -> U+005Cx5d
  @@ 94 :> <<92, 120, 53, 101>>           \* ^ -> U+005Cx5e
  @@ 123 :> <<92, 120, 55, 98>>           \* { -> U+005Cx7b
  @@ 124 :> <<92, 120, 55, 99>>           \* | -> U+005Cx7c
  @@ 125 :> <<92, 120, 55, 100>>          \* } -> U+005Cx7d
  @@ 133 :> <<92, 120, 56, 53>>           \* U+0085 -> U+005Cx85
  @@ 8232 :> <<92, 117, 50, 48, 50, 56>>  \* U+2028 -> U+005Cu2028
  @@ 8233 :> <<92, 117, 50, 48, 50, 57>>  \* U+2029 -> U+005Cu2029

\* _ESCAPE_MAP_FOR_ESCAPE_CSS_STRING (generated_sanitize.py:93-121)
ESCAPE_MAP_FOR_ESCAPE_CSS_STRING ==
     0 :> <<92, 48, 32>>                 \* U+0000 -> U+005C0SP
  @@ 8 :> <<92, 56, 32>>                 \* U+0008 -> U+005C8SP
  @@ 9 :> <<92, 57, 32>>                 \* U+0009 -> U+005C9SP
  @@ 10 :> <<92, 97, 32>>                \* U+000A -> U+005CaSP
  @@ 11 :> <<92, 98, 32>>                \* U+000B -> U+005CbSP
  @@ 12 :> <<92, 99, 32>>                \* U+000C -> U+005CcSP
  @@ 13 :> <<92, 100, 32>>               \* U+000D -> U+005CdSP
  @@ 34 :> <<92, 50, 50, 32>>            \* U+0022 -> U+005C22SP
  @@ 38 :> <<92, 50, 54, 32>>            \* & -> U+005C26SP
  @@ 39 :> <<92, 50, 55, 32>>            \* ' -> U+005C27SP
  @@ 40 :> <<92, 50, 56, 32>>            \* ( -> U+005C28SP
  @@ 41 :> <<92, 50, 57, 32>>            \* ) -> U+005C29SP
  @@ 42 :> <<92, 50, 97, 32>>            \* * -> U+005C2aSP
  @@ 47 :> <<92, 50, 102, 32>>           \* / -> U+005C2fSP
  @@ 58 :> <<92, 51, 97, 32>>            \* : -> U+005C3aSP
  @@ 59 :> <<92, 51, 98, 32>>            \* ; -> U+005C3bSP
  @@ 60 :> <<92, 51, 99, 32>>            \* < -> U+005C3cSP
  @@ 61 :> <<92, 51, 100, 32>>           \* = -> U+005C3dSP
  @@ 62 :> <<92, 51, 101, 32>>           \* > -> U+005C3eSP
  @@ 64 :> <<92, 52, 48, 32>>            \* @ -> U+005C40SP
  @@ 92 :> <<92, 53, 99, 32>>            \* U+005C -> U+005C5cSP
  @@ 123 :> <<92, 55, 98, 32>>           \* { -> U+005C7bSP
  @@ 125 :> <<92, 55, 100, 32>>          \* } -> U+005C7dSP
  @@ 133 :> <<92, 56, 53, 32>>           \* U+0085 -> U+005C85SP
  @@ 160 :> <<92, 97, 48, 32>>           \* U+00A0 -> U+005Ca0SP
  @@ 8232 :> <<92, 50, 48, 50, 56, 32>>  \* U+2028 -> U+005C2028SP
  @@ 8233 :> <<92, 50, 48, 50, 57, 32>>  \* U+2029 -> U+005C2029SP

\* _ESCAPE_MAP_FOR_NORMALIZE_URI... (generated_sanitize.py:127-193)
ESCAPE_MAP_FOR_NORMALIZE_URI__AND__FILTER_NORMALIZE_URI__AND__FILTER_NORMALIZE_MEDIA_URI ==
     0 :> <<37, 48, 48>>                              \* U+0000 -> %00
  @@ 1 :> <<37, 48, 49>>                              \* U+0001 -> %01
  @@ 2 :> <<37, 48, 50>>                              \* U+0002 -> %02
  @@ 3 :> <<37, 48, 51>>                              \* U+0003 -> %03
  @@ 4 :> <<37, 48, 52>>                              \* U+0004 -> %04
  @@ 5 :> <<37, 48, 53>>                              \* U+0005 -> %05
  @@ 6 :> <<37, 48, 54>>                              \* U+0006 -> %06
  @@ 7 :> <<37, 48, 55>>                              \* U+0007 -> %07
  @@ 8 :> <<37, 48, 56>>                              \* U+0008 -> %08
  @@ 9 :> <<37, 48, 57>>                              \* U+0009 -> %09
  @@ 10 :> <<37, 48, 65>>                             \* U+000A -> %0A
  @@ 11 :> <<37, 48, 66>>                             \* U+000B -> %0B
  @@ 12 :> <<37, 48, 67>>                             \* U+000C -> %0C
  @@ 13 :> <<37, 48, 68>>                             \* U+000D -> %0D
  @@ 14 :> <<37, 48, 69>>                             \* U+000E -> %0E
  @@ 15 :> <<37, 48, 70>>                             \* U+000F -> %0F
  @@ 16 :> <<37, 49, 48>>                             \* U+0010 -> %10
  @@ 17 :> <<37, 49, 49>>                             \* U+0011 -> %11
  @@ 18 :> <<37, 49, 50>>                             \* U+0012 -> %12
  @@ 19 :> <<37, 49, 51>>                             \* U+0013 -> %13
  @@ 20 :> <<37, 49, 52>>                             \* U+0014 -> %14
  @@ 21 :> <<37, 49, 53>>                             \* U+0015 -> %15
  @@ 22 :> <<37, 49, 54>>                             \* U+0016 -> %16
  @@ 23 :> <<37, 49, 55>>                             \* U+0017 -> %17
  @@ 24 :> <<37, 49, 56>>                             \* U+0018 -> %18
  @@ 25 :> <<37, 49, 57>>                             \* U+0019 -> %19
  @@ 26 :> <<37, 49, 65>>                             \* U+001A -> %1A
  @@ 27 :> <<37, 49, 66>>                             \* U+001B -> %1B
  @@ 28 :> <<37, 49, 67>>                             \* U+001C -> %1C
  @@ 29 :> <<37, 49, 68>>                             \* U+001D -> %1D
  @@ 30 :> <<37, 49, 69>>                             \* U+001E -> %1E
  @@ 31 :> <<37, 49, 70>>                             \* U+001F -> %1F
  @@ 32 :> <<37, 50, 48>>                             \* SP -> %20
  @@ 34 :> <<37, 50, 50>>                             \* U+0022 -> %22
  @@ 39 :> <<37, 50, 55>>                             \* ' -> %27
  @@ 40 :> <<37, 50, 56>>                             \* ( -> %28
  @@ 41 :> <<37, 50, 57>>                             \* ) -> %29
  @@ 60 :> <<37, 51, 67>>                             \* < -> %3C
  @@ 62 :> <<37, 51, 69>>                             \* > -> %3E
  @@ 92 :> <<37, 53, 67>>                             \* U+005C -> %5C
  @@ 123 :> <<37, 55, 66>>                            \* { -> %7B
  @@ 125 :> <<37, 55, 68>>                            \* } -> %7D
  @@ 127 :> <<37, 55, 70>>                            \* U+007F -> %7F
  @@ 133 :> <<37, 67, 50, 37, 56, 53>>                \* U+0085 -> %C2%85
  @@ 160 :> <<37, 67, 50, 37, 65, 48>>                \* U+00A0 -> %C2%A0
  @@ 8232 :> <<37, 69, 50, 37, 56, 48, 37, 65, 56>>   \* U+2028 -> %E2%80%A8
  @@ 8233 :> <<37, 69, 50, 37, 56, 48, 37, 65, 57>>   \* U+2029 -> %E2%80%A9
  @@ 65281 :> <<37, 69, 70, 37, 66, 67, 37, 56, 49>>  \* U+FF01 -> %EF%BC%81
  @@ 65283 :> <<37, 69, 70, 37, 66, 67, 37, 56, 51>>  \* U+FF03 -> %EF%BC%83
  @@ 65284 :> <<37, 69, 70, 37, 66, 67, 37, 56, 52>>  \* U+FF04 -> %EF%BC%84
  @@ 65286 :> <<37, 69, 70, 37, 66, 67, 37, 56, 54>>  \* U+FF06 -> %EF%BC%86
  @@ 65287 :> <<37, 69, 70, 37, 66, 67, 37, 56, 55>>  \* U+FF07 -> %EF%BC%87
  @@ 65288 :> <<37, 69, 70, 37, 66, 67, 37, 56, 56>>  \* U+FF08 -> %EF%BC%88
  @@ 65289 :> <<37, 69, 70, 37, 66, 67, 37, 56, 57>>  \* U+FF09 -> %EF%BC%89
  @@ 65290 :> <<37, 69, 70, 37, 66, 67, 37, 56, 65>>  \* U+FF0A -> %EF%BC%8A
  @@ 65291 :> <<37, 69, 70, 37, 66, 67, 37, 56, 66>>  \* U+FF0B -> %EF%BC%8B
  @@ 65292 :> <<37, 69, 70, 37, 66, 67, 37, 56, 67>>  \* U+FF0C -> %EF%BC%8C
  @@ 65295 :> <<37, 69, 70, 37, 66, 67, 37, 56, 70>>  \* U+FF0F -> %EF%BC%8F
  @@ 65306 :> <<37, 69, 70, 37, 66, 67, 37, 57, 65>>  \* U+FF1A -> %EF%BC%9A
  @@ 65307 :> <<37, 69, 70, 37, 66, 67, 37, 57, 66>>  \* U+FF1B -> %EF%BC%9B
  @@ 65309 :> <<37, 69, 70, 37, 66, 67, 37, 57, 68>>  \* U+FF1D -> %EF%BC%9D
  @@ 65311 :> <<37, 69, 70, 37, 66, 67, 37, 57, 70>>  \* U+FF1F -> %EF%BC%9F
  @@ 65312 :> <<37, 69, 70, 37, 66, 67, 37, 65, 48>>  \* U+FF20 -> %EF%BC%A0
  @@ 65339 :> <<37, 69, 70, 37, 66, 67, 37, 66, 66>>  \* U+FF3B -> %EF%BC%BB
  @@ 65341 :> <<37, 69, 70, 37, 66, 67, 37, 66, 68>>  \* U+FF3D -> %EF%BC%BD

MATCHER_FOR_ESCAPE_HTML ==
  {0, 34, 38, 39, 60, 62}

MATCHER_FOR_NORMALIZE_HTML ==
  {0, 34, 39, 60, 62}

MATCHER_FOR_ESCAPE_HTML_NOSPACE ==
  {0} \cup (9..13) \cup {32, 34, 38, 39, 45, 47} \cup (60..62) \cup {96, 133, 160, 8232, 8233}

MATCHER_FOR_NORMALIZE_HTML_NOSPACE ==
  {0} \cup (9..13) \cup {32, 34, 39, 45, 47} \cup (60..62) \cup {96, 133, 160, 8232, 8233}

MATCHER_FOR_ESCAPE_JS_STRING ==
  {0} \cup (8..13) \cup {34, 38, 39, 47} \cup (60..62) \cup (91..93) \cup {123, 125, 133, 8232, 8233}

MATCHER_FOR_ESCAPE_JS_REGEX ==
  {0} \cup (8..13) \cup {34, 36} \cup (38..47) \cup {58} \cup (60..63) \cup (91..94) \cup (123..125) \cup {133, 8232, 8233}

MATCHER_FOR_ESCAPE_CSS_STRING ==
  {0} \cup (8..13) \cup {34} \cup (38..42) \cup {47} \cup (58..62) \cup {64, 92, 123, 125, 133, 160, 8232, 8233}

MATCHER_FOR_NORMALIZE_URI__AND__FILTER_NORMALIZE_URI__AND__FILTER_NORMALIZE_MEDIA_URI ==
  (0..32) \cup {34} \cup (39..41) \cup {60, 62, 92, 123, 125, 127, 133, 160, 8232, 8233, 65281, 65283, 65284} \cup (65286..65292) \cup {65295, 65306, 65307, 65309, 65311, 65312, 65339, 65341}

\* The strings of a sequence of strings, one after the other.
RECURSIVE Join(_)
Join(pieces) ==
  IF pieces = <<>> THEN <<>> ELSE Head(pieces) \o Join(Tail(pieces))

\* matcher.sub(replacer, value), the replacer looking the matched character
\* up in escape_map: every character of the class is replaced by
\* escape_map[ch], and KeyError is raised when the map has no such key.
ReSub(matcher, escape_map, value) ==
  IF \E i \in 1..Len(value) : value[i] \in matcher /\ value[i] \notin DOMAIN escape_map
    THEN [kind |-> "KeyError"]
    ELSE [kind |-> "return",
          value |-> Join([i \in 1..Len(value) |->
                            IF value[i] \in matcher
                              THEN escape_map[value[i]] ELSE <<value[i]>>])]

escape_html_helper_NormalizeMatcher(value) ==
  ReSub(MATCHER_FOR_NORMALIZE_HTML,
        ESCAPE_MAP_FOR_ESCAPE_HTML__AND__NORMALIZE_HTML__AND__ESCAPE_HTML_NOSPACE__AND__NORMALIZE_HTML_NOSPACE,
        value)

escape_html_helper(value) ==
  ReSub(MATCHER_FOR_ESCAPE_HTML,
        ESCAPE_MAP_FOR_ESCAPE_HTML__AND__NORMALIZE_HTML__AND__ESCAPE_HTML_NOSPACE__AND__NORMALIZE_HTML_NOSPACE,
        value)

normalize_html_helper(value) ==
  ReSub(MATCHER_FOR_NORMALIZE_HTML,
        ESCAPE_MAP_FOR_ESCAPE_HTML__AND__NORMALIZE_HTML__AND__ESCAPE_HTML_NOSPACE__AND__NORMALIZE_HTML_NOSPACE,
        value)

escape_html_nospace_helper(value) ==
  ReSub(MATCHER_FOR_ESCAPE_HTML_NOSPACE,
        ESCAPE_MAP_FOR_ESCAPE_HTML__AND__NORMALIZE_HTML__AND__ESCAPE_HTML_NOSPACE__AND__NORMALIZE_HTML_NOSPACE,
        value)

normalize_html_nospace_helper(value) ==
  ReSub(MATCHER_FOR_NORMALIZE_HTML_NOSPACE,
        ESCAPE_MAP_FOR_ESCAPE_HTML__AND__NORMALIZE_HTML__AND__ESCAPE_HTML_NOSPACE__AND__NORMALIZE_HTML_NOSPACE,
        value)

escape_js_string_helper(value) ==
  ReSub(MATCHER_FOR_ESCAPE_JS_STRING,
        ESCAPE_MAP_FOR_ESCAPE_JS_STRING__AND__ESCAPE_JS_REGEX, value)

\* The replacer of escape_js_regex with a map that lacks the characters
\* only escape_js_regex escapes.
escape_js_regex_helper_StringMapOnly(value) ==
  ReSub(MATCHER_FOR_ESCAPE_JS_REGEX,
        [ch \in MATCHER_FOR_ESCAPE_JS_STRING |->
           ESCAPE_MAP_FOR_ESCAPE_JS_STRING__AND__ESCAPE_JS_REGEX[ch]],
        value)

escape_js_regex_helper(value) ==
  ReSub(MATCHER_FOR_ESCAPE_JS_REGEX,
        ESCAPE_MAP_FOR_ESCAPE_JS_STRING__AND__ESCAPE_JS_REGEX, value)

escape_css_string_helper(value) ==
  ReSub(MATCHER_FOR_ESCAPE_CSS_STRING, ESCAPE_MAP_FOR_ESCAPE_CSS_STRING, value)

normalize_uri_helper(value) ==
  ReSub(MATCHER_FOR_NORMALIZE_URI__AND__FILTER_NORMALIZE_URI__AND__FILTER_NORMALIZE_MEDIA_URI,
        ESCAPE_MAP_FOR_NORMALIZE_URI__AND__FILTER_NORMALIZE_URI__AND__FILTER_NORMALIZE_MEDIA_URI,
        value)

EscapeHelpers ==
  {"escape_html", "normalize_html", "escape_html_nospace",
   "normalize_html_nospace", "escape_js_string", "escape_js_regex",
   "escape_css_string", "normalize_uri"}

\* The call of the escape helper of a name.
CallEscape(helper, value) ==
  CASE helper = "escape_html" -> escape_html_helper(value)
    [] helper = "normalize_html" -> normalize_html_helper(value)
    [] helper = "escape_html_nospace" -> escape_html_nospace_helper(value)
    [] helper = "normalize_html_nospace" -> normalize_html_nospace_helper(value)
    [] helper = "escape_js_string" -> escape_js_string_helper(value)
    [] helper = "escape_js_regex" -> escape_js_regex_helper(value)
    [] helper = "escape_css_string" -> escape_css_string_helper(value)
    [] helper = "normalize_uri" -> normalize_uri_helper(value)

\* The matcher class and the escape map the source names after a helper.
MatcherOf(helper) ==
  CASE helper = "escape_html" -> MATCHER_FOR_ESCAPE_HTML
    [] helper = "normalize_html" -> MATCHER_FOR_NORMALIZE_HTML
    [] helper = "escape_html_nospace" -> MATCHER_FOR_ESCAPE_HTML_NOSPACE
    [] helper = "normalize_html_nospace" -> MATCHER_FOR_NORMALIZE_HTML_NOSPACE
    [] helper = "escape_js_string" -> MATCHER_FOR_ESCAPE_JS_STRING
    [] helper = "escape_js_regex" -> MATCHER_FOR_ESCAPE_JS_REGEX
    [] helper = "escape_css_string" -> MATCHER_FOR_ESCAPE_CSS_STRING
    [] helper = "normalize_uri" ->
         MATCHER_FOR_NORMALIZE_URI__AND__FILTER_NORMALIZE_URI__AND__FILTER_NORMALIZE_MEDIA_URI

EscapeMapOf(helper) ==
  CASE helper \in {"escape_html", "normalize_html", "escape_html_nospace",
                   "normalize_html_nospace"} ->
         ESCAPE_MAP_FOR_ESCAPE_HTML__AND__NORMALIZE_HTML__AND__ESCAPE_HTML_NOSPACE__AND__NORMALIZE_HTML_NOSPACE
    [] helper \in {"escape_js_string", "escape_js_regex"} ->
         ESCAPE_MAP_FOR_ESCAPE_JS_STRING__AND__ESCAPE_JS_REGEX
    [] helper = "escape_css_string" -> ESCAPE_MAP_FOR_ESCAPE_CSS_STRING
    [] helper = "normalize_uri" ->
         ESCAPE_MAP_FOR_NORMALIZE_URI__AND__FILTER_NORMALIZE_URI__AND__FILTER_NORMALIZE_MEDIA_URI

\* Strings of at most n characters of an alphabet.
SeqsUpTo(alphabet, n) == UNION {[1..k -> alphabet] : k \in 0..n}

\* Inputs of the escapers: every character that some matcher class or escape
\* map names, each with its two neighbours, alone; and the strings of a few
\* of them.
EscapeChars ==
  LET named == UNION {MatcherOf(h) \cup DOMAIN EscapeMapOf(h) : h \in EscapeHelpers}
  IN  {c \in UNION {{d - 1, d, d + 1} : d \in named} : c >= 0} \cup {65, 97}

\* < & a SP \ ' U+2028
EscapeAlphabet == {60, 38, 97, 32, 92, 39, 8232}

EscapeInputs ==
  {<<c>> : c \in EscapeChars} \cup SeqsUpTo(EscapeAlphabet, MaxEscapeLen)

----------------------------------------------------------------------------
(* generated_sanitize.py: the filters.  A compiled pattern is the tree of  *)
(* its regular expression; re.search is the set of positions where a match *)
(* of the tree can end, computed from the positions where it can start.    *)

\* The quantifiers * and + have no upper limit.
Unbounded == -1

Lit(chars) == [t |-> "lit", chars |-> chars]
Class(set) == [t |-> "in", set |-> set]
NotClass(set) == [t |-> "notin", set |-> set]
Bos == [t |-> "bos"]
Eos == [t |-> "eos"]
Eol == [t |-> "eol"]
Cat(items) == [t |-> "cat", items |-> items]
Alt(items) == [t |-> "alt", items |-> items]
Rep(r, lo, hi) == [t |-> "rep", r |-> r, lo |-> lo, hi |-> hi]
NotAhead(r) == [t |-> "notahead", r |-> r]

\* The characters \s matches under re.U.
WHITESPACE ==
  (9..13) \cup (28..32) \cup {133, 160, 5760} \cup (8192..8202)
    \cup {8232, 8233, 8239, 8287, 12288}

\* The lower case of a character as re.I compares it: A-Z, and the letters
\* whose lower case is an ASCII letter (U+0130 and U+0131 are i, U+212A is
\* k, U+017F is s).
Fold(ch) ==
  IF ch \in 65..90 THEN ch + 32
  ELSE IF ch \in {304, 305} THEN 105
  ELSE IF ch = 8490 THEN 107
  ELSE IF ch = 383 THEN 115
  ELSE ch

\* Whether the pattern character c matches the character ch.
CharMatches(c, ch, ignorecase) ==
  IF ignorecase THEN Fold(c) = Fold(ch) ELSE c = ch

\* Whether the character ch is one a class of the characters of set matches.
CharIn(set, ch, ignorecase) ==
  IF ignorecase THEN \E c \in set : CharMatches(c, ch, TRUE) ELSE ch \in set

RECURSIVE Ends(_, _, _, _)
RECURSIVE CatEnds(_, _, _, _)
RECURSIVE RepAtLeast(_, _, _, _, _)
RECURSIVE RepMore(_, _, _, _, _, _)

\* The positions after the items of a concatenation, one after the other.
CatEnds(items, s, P, ignorecase) ==
  IF items = <<>> \/ P = {} THEN P
  ELSE CatEnds(Tail(items), s, Ends(Head(items), s, P, ignorecase), ignorecase)

\* The positions after exactly n repetitions of r.
RepAtLeast(r, s, P, ignorecase, n) ==
  IF n = 0 \/ P = {} THEN P
  ELSE RepAtLeast(r, s, Ends(r, s, P, ignorecase), ignorecase, n - 1)

\* The positions after at most left further repetitions of r; acc holds the
\* positions already reached and frontier the ones reached last.
RepMore(r, s, frontier, acc, ignorecase, left) ==
  IF frontier = {} \/ left = 0 THEN acc
  ELSE LET next == Ends(r, s, frontier, ignorecase) \ acc
       IN  RepMore(r, s, next, acc \cup next, ignorecase, left - 1)

\* The positions (numbers of characters consumed) where a match of node
\* that starts at a position of P can end.
Ends(node, s, P, ignorecase) ==
  CASE node.t = "lit" ->
         {p + Len(node.chars) : p \in
            {q \in P : /\ q + Len(node.chars) <= Len(s)
                       /\ \A k \in 1..Len(node.chars) :
                            CharMatches(node.chars[k], s[q + k], ignorecase)}}
    [] node.t = "in" ->
         {p + 1 : p \in
            {q \in P : /\ q < Len(s)
                       /\ CharIn(node.set, s[q + 1], ignorecase)}}
    [] node.t = "notin" ->
         {p + 1 : p \in
            {q \in P : /\ q < Len(s)
                       /\ ~CharIn(node.set, s[q + 1], ignorecase)}}
    [] node.t = "bos" -> {p \in P : p = 0}
    [] node.t = "eos" -> {p \in P : p = Len(s)}
    [] node.t = "eol" ->
         {p \in P : p = Len(s) \/ (p = Len(s) - 1 /\ s[Len(s)] = 10)}
    [] node.t = "cat" -> CatEnds(node.items, s, P, ignorecase)
    [] node.t = "alt" ->
         UNION {Ends(node.items[k], s, P, ignorecase) : k \in 1..Len(node.items)}
    [] node.t = "notahead" ->
         {p \in P : Ends(node.r, s, {p}, ignorecase) = {}}
    [] node.t = "rep" ->
         LET start == RepAtLeast(node.r, s, P, ignorecase, node.lo)
         IN  RepMore(node.r, s, start, start, ignorecase,
                     IF node.hi = Unbounded THEN Unbounded ELSE node.hi - node.lo)

\* pattern.search(value) finds a match: one that starts somewhere in value.
ReSearch(pattern, ignorecase, value) ==
  Ends(pattern, value, 0..Len(value), ignorecase) # {}

\* _FILTER_FOR_FILTER_CSS_VALUE (re.U | re.I)
FILTER_FOR_FILTER_CSS_VALUE ==
  Cat(<<
    Bos,
    NotAhead(
      Cat(<<
        Rep(
          Lit(<<45>>), 0, Unbounded),  \* -
        Alt(<<
          Lit(<<101, 120, 112, 114, 101, 115, 115, 105, 111, 110>>),  \* expression
          Cat(<<
            Rep(
              Lit(<<109, 111, 122, 45>>), 0, 1),  \* moz-
            Lit(<<98, 105, 110, 100, 105, 110, 103>>)>>)>>)>>)),  \* binding
    Rep(
      Cat(<<
        Alt(<<
          Cat(<<
            Rep(
              Class({46, 35}), 0, 1),
            Rep(
              Lit(<<45>>), 0, 1),  \* -
            Rep(
              Class({95} \cup (97..122) \cup (48..57) \cup {45}), 1, Unbounded),
            Rep(
              Cat(<<
                Lit(<<45>>),  \* -
                Rep(
                  Class({95} \cup (97..122) \cup (48..57) \cup {45}), 1, Unbounded)>>), 0, Unbounded),
            Rep(
              Lit(<<45>>), 0, 1)>>),  \* -
          Cat(<<
            Alt(<<
              Lit(<<99, 97, 108, 99>>),  \* calc
              Lit(<<99, 117, 98, 105, 99, 45, 98, 101, 122, 105, 101, 114>>),  \* cubic-bezier
              Lit(<<100, 114, 111, 112, 45, 115, 104, 97, 100, 111, 119>>),  \* drop-shadow
              Lit(<<104, 115, 108>>),  \* hsl
              Lit(<<104, 115, 108, 97>>),  \* hsla
              Lit(<<104, 117, 101, 45, 114, 111, 116, 97, 116, 101>>),  \* hue-rotate
              Lit(<<105, 110, 118, 101, 114, 116>>),  \* invert
              Lit(<<108, 105, 110, 101, 97, 114, 45, 103, 114, 97, 100, 105, 101, 110, 116>>),  \* linear-gradient
              Lit(<<109, 97, 120>>),  \* max
              Lit(<<109, 105, 110>>),  \* min
              Lit(<<114, 103, 98>>),  \* rgb
              Lit(<<114, 103, 98, 97>>),  \* rgba
              Lit(<<114, 111, 116, 97, 116, 101>>),  \* rotate
              Lit(<<114, 111, 116, 97, 116, 101, 90>>),  \* rotateZ
              Lit(<<116, 114, 97, 110, 115, 108, 97, 116, 101>>),  \* translate
              Lit(<<116, 114, 97, 110, 115, 108, 97, 116, 101, 51, 100>>),  \* translate3d
              Lit(<<116, 114, 97, 110, 115, 108, 97, 116, 101, 88>>),  \* translateX
              Lit(<<116, 114, 97, 110, 115, 108, 97, 116, 101, 89>>),  \* translateY
              Lit(<<118, 97, 114>>)>>),  \* var
            Lit(<<40>>),  \* (
            Rep(
              Alt(<<
                Rep(
                  Cat(<<
                    Rep(
                      Alt(<<
                        Cat(<<
                          Lit(<<47>>),  \* /
                          NotAhead(
                            Class({47, 42}))>>),
                        Cat(<<
                          Lit(<<42>>),
                          NotAhead(
                            Lit(<<47>>))>>)>>), 0, 1),  \* /
                    Rep(
                      Class({45, 32, 9, 44, 43, 46, 33, 35, 37, 95} \cup (48..57) \cup (97..122) \cup (65..90)), 1, Unbounded)>>), 0, Unbounded),
                Cat(<<
                  Alt(<<
                    Lit(<<99, 97, 108, 99>>),  \* calc
                    Lit(<<99, 117, 98, 105, 99, 45, 98, 101, 122, 105, 101, 114>>),  \* cubic-bezier
                    Lit(<<100, 114, 111, 112, 45, 115, 104, 97, 100, 111, 119>>),  \* drop-shadow
                    Lit(<<104, 115, 108>>),  \* hsl
                    Lit(<<104, 115, 108, 97>>),  \* hsla
                    Lit(<<104, 117, 101, 45, 114, 111, 116, 97, 116, 101>>),  \* hue-rotate
                    Lit(<<105, 110, 118, 101, 114, 116>>),  \* invert
                    Lit(<<108, 105, 110, 101, 97, 114, 45, 103, 114, 97, 100, 105, 101, 110, 116>>),  \* linear-gradient
                    Lit(<<109, 97, 120>>),  \* max
                    Lit(<<109, 105, 110>>),  \* min
                    Lit(<<114, 103, 98>>),  \* rgb
                    Lit(<<114, 103, 98, 97>>),  \* rgba
                    Lit(<<114, 111, 116, 97, 116, 101>>),  \* rotate
                    Lit(<<114, 111, 116, 97, 116, 101, 90>>),  \* rotateZ
                    Lit(<<116, 114, 97, 110, 115, 108, 97, 116, 101>>),  \* translate
                    Lit(<<116, 114, 97, 110, 115, 108, 97, 116, 101, 51, 100>>),  \* translate3d
                    Lit(<<116, 114, 97, 110, 115, 108, 97, 116, 101, 88>>),  \* translateX
                    Lit(<<116, 114, 97, 110, 115, 108, 97, 116, 101, 89>>),  \* translateY
                    Lit(<<118, 97, 114>>)>>),  \* var
                  Lit(<<40>>),  \* (
                  Rep(
                    Cat(<<
                      Rep(
                        Alt(<<
                          Cat(<<
                            Lit(<<47>>),  \* /
                            NotAhead(
                              Class({47, 42}))>>),
                          Cat(<<
                            Lit(<<42>>),
                            NotAhead(
                              Lit(<<47>>))>>)>>), 0, 1),  \* /
                      Rep(
                        Class({45, 32, 9, 44, 43, 46, 33, 35, 37, 95} \cup (48..57) \cup (97..122) \cup (65..90)), 1, Unbounded)>>), 0, Unbounded),
                  Lit(<<41>>)>>)>>), 1, Unbounded),  \* )
            Lit(<<41>>)>>),  \* )
          Cat(<<
            Rep(
              Class({45, 43}), 0, 1),
            Alt(<<
              Cat(<<
                Rep(
                  Class((48..57)), 1, Unbounded),
                Rep(
                  Cat(<<
                    Lit(<<46>>),  \* .
                    Rep(
                      Class((48..57)), 0, Unbounded)>>), 0, 1)>>),
              Cat(<<
                Lit(<<46>>),  \* .
                Rep(
                  Class((48..57)), 1, Unbounded)>>)>>),
            Rep(
              Cat(<<
                Lit(<<101>>),  \* e
                Rep(
                  Lit(<<45>>), 0, 1),  \* -
                Rep(
                  Class((48..57)), 1, Unbounded)>>), 0, 1),
            Rep(
              Alt(<<
                Rep(
                  Class((97..122)), 1, 4),
                Lit(<<37>>)>>), 0, 1)>>),  \* %
          Alt(<<
            Cat(<<
              Lit(<<47>>),  \* /
              NotAhead(
                Class({47, 42}))>>),
            Cat(<<
              Lit(<<42>>),
              NotAhead(
                Lit(<<47>>))>>)>>),  \* /
          Lit(<<33, 105, 109, 112, 111, 114, 116, 97, 110, 116>>)>>),  \* !important
        Alt(<<
          Cat(<<
            Rep(
              Class(WHITESPACE), 0, Unbounded),
            Class({44, 32}),
            Rep(
              Class(WHITESPACE), 0, Unbounded)>>),
          Eos>>)>>), 0, Unbounded),
    Eos>>)

\* _FILTER_FOR_FILTER_NORMALIZE_URI without its (?!javascript:).
FILTER_FOR_FILTER_NORMALIZE_URI_NoLookahead ==
  Cat(<<
    Bos,
    Alt(<<
      Cat(<<
        Rep(
          Class((97..122) \cup (48..57) \cup {43, 46, 45}), 1, Unbounded),
        Lit(<<58>>)>>),  \* :
      Cat(<<
        Rep(
          NotClass({38, 58, 47, 63, 35}), 0, Unbounded),
        Alt(<<
          Class({47, 63, 35}),
          Eos>>)>>)>>)>>)

\* _FILTER_FOR_FILTER_NORMALIZE_URI (re.U | re.I)
FILTER_FOR_FILTER_NORMALIZE_URI ==
  Cat(<<
    Bos,
    NotAhead(
      Lit(<<106, 97, 118, 97, 115, 99, 114, 105, 112, 116, 58>>)),  \* javascript:
    Alt(<<
      Cat(<<
        Rep(
          Class((97..122) \cup (48..57) \cup {43, 46, 45}), 1, Unbounded),
        Lit(<<58>>)>>),  \* :
      Cat(<<
        Rep(
          NotClass({38, 58, 47, 63, 35}), 0, Unbounded),
        Alt(<<
          Class({47, 63, 35}),
          Eos>>)>>)>>)>>)

\* _FILTER_FOR_FILTER_NORMALIZE_MEDIA_URI (re.U | re.I)
FILTER_FOR_FILTER_NORMALIZE_MEDIA_URI ==
  Alt(<<
    Cat(<<
      Bos,
      Rep(
        NotClass({38, 58, 47, 63, 35}), 0, Unbounded),
      Alt(<<
        Class({47, 63, 35}),
        Eos>>)>>),
    Cat(<<
      Bos,
      Lit(<<104, 116, 116, 112>>),  \* http
      Rep(
        Lit(<<115>>), 0, 1),  \* s
      Lit(<<58>>)>>),  \* :
    Cat(<<
      Bos,
      Lit(<<102, 116, 112, 58>>)>>),  \* ftp:
    Cat(<<
      Bos,
      Lit(<<100, 97, 116, 97, 58, 105, 109, 97, 103, 101, 47>>),  \* data:image/
      Rep(
        Class((97..122) \cup (48..57) \cup {43, 45}), 1, Unbounded),
      Lit(<<59, 98, 97, 115, 101, 54, 52, 44>>),  \* ;base64,
      Rep(
        Class((97..122) \cup (48..57) \cup {43, 47}), 1, Unbounded),
      Rep(
        Lit(<<61>>), 0, Unbounded),  \* =
      Eos>>),
    Cat(<<
      Bos,
      Lit(<<98, 108, 111, 98, 58>>)>>)>>)  \* blob:

\* _FILTER_FOR_FILTER_IMAGE_DATA_URI (re.U | re.I)
FILTER_FOR_FILTER_IMAGE_DATA_URI ==
  Cat(<<
    Bos,
    Lit(<<100, 97, 116, 97, 58, 105, 109, 97, 103, 101, 47>>),  \* data:image/
    Alt(<<
      Lit(<<98, 109, 112>>),  \* bmp
      Lit(<<103, 105, 102>>),  \* gif
      Cat(<<
        Lit(<<106, 112>>),  \* jp
        Rep(
          Lit(<<101>>), 0, 1),  \* e
        Lit(<<103>>)>>),  \* g
      Lit(<<112, 110, 103>>),  \* png
      Lit(<<116, 105, 102, 102>>),  \* tiff
      Lit(<<119, 101, 98, 112>>),  \* webp
      Lit(<<120, 45, 105, 99, 111, 110>>)>>),  \* x-icon
    Lit(<<59, 98, 97, 115, 101, 54, 52, 44>>),  \* ;base64,
    Rep(
      Class((97..122) \cup (48..57) \cup {43, 47}), 1, Unbounded),
    Rep(
      Lit(<<61>>), 0, Unbounded),  \* =
    Eos>>)

\* _FILTER_FOR_FILTER_SIP_URI (re.U | re.I)
FILTER_FOR_FILTER_SIP_URI ==
  Cat(<<
    Bos,
    Lit(<<115, 105, 112, 58>>),  \* sip:
    Rep(
      Class((48..57) \cup (97..122) \cup {59, 61, 45, 43, 46, 95, 33, 126, 42, 39, 32, 47, 40, 41, 58, 38, 36, 35, 63, 64, 44}), 1, Unbounded),
    Eos>>)

\* _FILTER_FOR_FILTER_SMS_URI (re.U | re.I)
FILTER_FOR_FILTER_SMS_URI ==
  Cat(<<
    Bos,
    Lit(<<115, 109, 115, 58>>),  \* sms:
    Rep(
      Class((48..57) \cup (97..122) \cup {59, 61, 45, 43, 46, 95, 33, 126, 42, 39, 32, 47, 40, 41, 58, 38, 36, 35, 63, 64, 44}), 1, Unbounded),
    Eos>>)

\* _FILTER_FOR_FILTER_TEL_URI (re.U | re.I)
FILTER_FOR_FILTER_TEL_URI ==
  Cat(<<
    Bos,
    Lit(<<116, 101, 108, 58>>),  \* tel:
    Rep(
      Alt(<<
        Class((48..57) \cup (97..122) \cup {59, 61, 45, 43, 46, 95, 33, 126, 42, 39, 32, 47, 40, 41, 58, 38, 36, 35, 63, 64, 44}),
        Lit(<<37, 50, 51>>),  \* %23
        Lit(<<37, 50, 67>>),  \* %2C
        Lit(<<37, 51, 66>>)>>), 1, Unbounded),  \* %3B
    Eos>>)

\* _FILTER_FOR_FILTER_HTML_ATTRIBUTES (re.U | re.I)
FILTER_FOR_FILTER_HTML_ATTRIBUTES ==
  Cat(<<
    Bos,
    NotAhead(
      Alt(<<
        Lit(<<111, 110>>),  \* on
        Lit(<<115, 114, 99>>),  \* src
        Cat(<<
          Alt(<<
            Lit(<<97, 99, 116, 105, 111, 110>>),  \* action
            Lit(<<97, 114, 99, 104, 105, 118, 101>>),  \* archive
            Lit(<<98, 97, 99, 107, 103, 114, 111, 117, 110, 100>>),  \* background
            Lit(<<99, 105, 116, 101>>),  \* cite
            Lit(<<99, 108, 97, 115, 115, 105, 100>>),  \* classid
            Lit(<<99, 111, 100, 101, 98, 97, 115, 101>>),  \* codebase
            Lit(<<99, 111, 110, 116, 101, 110, 116>>),  \* content
            Lit(<<100, 97, 116, 97>>),  \* data
            Lit(<<100, 115, 121, 110, 99>>),  \* dsync
            Lit(<<104, 114, 101, 102>>),  \* href
            Lit(<<104, 116, 116, 112, 45, 101, 113, 117, 105, 118>>),  \* http-equiv
            Lit(<<108, 111, 110, 103, 100, 101, 115, 99>>),  \* longdesc
            Lit(<<115, 116, 121, 108, 101>>),  \* style
            Lit(<<117, 115, 101, 109, 97, 112>>)>>),  \* usemap
          Rep(
            Class(WHITESPACE), 0, Unbounded),
          Eol>>)>>)),
    Rep(
      Class((97..122) \cup (48..57) \cup {95, 36, 58, 45}), 0, Unbounded),
    Eos>>)

\* _FILTER_FOR_FILTER_HTML_ELEMENT_NAME (re.U | re.I)
FILTER_FOR_FILTER_HTML_ELEMENT_NAME ==
  Cat(<<
    Bos,
    NotAhead(
      Alt(<<
        Lit(<<98, 97, 115, 101>>),  \* base
        Lit(<<105, 102, 114, 97, 109, 101>>),  \* iframe
        Lit(<<108, 105, 110, 107>>),  \* link
        Lit(<<110, 111, 102, 114, 97, 109, 101, 115>>),  \* noframes
        Lit(<<110, 111, 115, 99, 114, 105, 112, 116>>),  \* noscript
        Lit(<<111, 98, 106, 101, 99, 116>>),  \* object
        Lit(<<115, 99, 114, 105, 112, 116>>),  \* script
        Lit(<<115, 116, 121, 108, 101>>),  \* style
        Lit(<<116, 101, 120, 116, 97, 114, 101, 97>>),  \* textarea
        Lit(<<116, 105, 116, 108, 101>>),  \* title
        Lit(<<120, 109, 112>>)>>)),  \* xmp
    Rep(
      Class((97..122) \cup (48..57) \cup {95, 36, 58, 45}), 0, Unbounded),
    Eos>>)

\* _FILTER_FOR_FILTER_CSP_NONCE_VALUE (re.U)
FILTER_FOR_FILTER_CSP_NONCE_VALUE ==
  Cat(<<
    Bos,
    Rep(
      Class((97..122) \cup (65..90) \cup (48..57) \cup {43, 47, 95, 45}), 1, Unbounded),
    Rep(
      Lit(<<61>>), 0, 2),  \* =
    Eol>>)

\* The literals the filters return for a rejected value.
zSoyz == <<122, 83, 111, 121, 122>>

\* about:invalid#zSoyz
about_invalid_zSoyz ==
  <<97, 98, 111, 117, 116, 58, 105, 110, 118, 97, 108, 105, 100, 35, 122, 83, 111, 121, 122>>

\* data:image/gif;base64,zSoyz
data_image_gif_zSoyz ==
  <<100, 97, 116, 97, 58, 105, 109, 97, 103, 101, 47, 103, 105, 102, 59, 98, 97, 115, 101, 54, 52, 44, 122, 83, 111, 121, 122>>

filter_css_value_helper(value) ==
  IF ~ReSearch(FILTER_FOR_FILTER_CSS_VALUE, TRUE, value)
    THEN [kind |-> "return", value |-> zSoyz]
    ELSE [kind |-> "return", value |-> value]

\* filter_normalize_uri whose table encodes % as %25 as well.
filter_normalize_uri_helper_PercentToo(value) ==
  IF ~ReSearch(FILTER_FOR_FILTER_NORMALIZE_URI, TRUE, value)
    THEN [kind |-> "return", value |-> about_invalid_zSoyz]
    ELSE ReSub(MATCHER_FOR_NORMALIZE_URI__AND__FILTER_NORMALIZE_URI__AND__FILTER_NORMALIZE_MEDIA_URI
                 \cup {37},
               (37 :> <<37, 50, 53>>)
                 @@ ESCAPE_MAP_FOR_NORMALIZE_URI__AND__FILTER_NORMALIZE_URI__AND__FILTER_NORMALIZE_MEDIA_URI,
               value)

filter_normalize_uri_helper(value) ==
  IF ~ReSearch(FILTER_FOR_FILTER_NORMALIZE_URI, TRUE, value)
    THEN [kind |-> "return", value |-> about_invalid_zSoyz]
    ELSE ReSub(MATCHER_FOR_NORMALIZE_URI__AND__FILTER_NORMALIZE_URI__AND__FILTER_NORMALIZE_MEDIA_URI,
               ESCAPE_MAP_FOR_NORMALIZE_URI__AND__FILTER_NORMALIZE_URI__AND__FILTER_NORMALIZE_MEDIA_URI,
               value)

\* filter_normalize_media_uri that returns the accepted value as it came.
filter_normalize_media_uri_helper_NoEscape(value) ==
  IF ~ReSearch(FILTER_FOR_FILTER_NORMALIZE_MEDIA_URI, TRUE, value)
    THEN [kind |-> "return", value |-> about_invalid_zSoyz]
    ELSE [kind |-> "return", value |-> value]

filter_normalize_media_uri_helper(value) ==
  IF ~ReSearch(FILTER_FOR_FILTER_NORMALIZE_MEDIA_URI, TRUE, value)
    THEN [kind |-> "return", value |-> about_invalid_zSoyz]
    ELSE ReSub(MATCHER_FOR_NORMALIZE_URI__AND__FILTER_NORMALIZE_URI__AND__FILTER_NORMALIZE_MEDIA_URI,
               ESCAPE_MAP_FOR_NORMALIZE_URI__AND__FILTER_NORMALIZE_URI__AND__FILTER_NORMALIZE_MEDIA_URI,
               value)

\* filter_image_data_uri with the sentinel of the generic filters.
filter_image_data_uri_helper_GenericSentinel(value) ==
  IF ~ReSearch(FILTER_FOR_FILTER_IMAGE_DATA_URI, TRUE, value)
    THEN [kind |-> "return", value |-> zSoyz]
    ELSE [kind |-> "return", value |-> value]

filter_image_data_uri_helper(value) ==
  IF ~ReSearch(FILTER_FOR_FILTER_IMAGE_DATA_URI, TRUE, value)
    THEN [kind |-> "return", value |-> data_image_gif_zSoyz]
    ELSE [kind |-> "return", value |-> value]

filter_sip_uri_helper(value) ==
  IF ~ReSearch(FILTER_FOR_FILTER_SIP_URI, TRUE, value)
    THEN [kind |-> "return", value |-> about_invalid_zSoyz]
    ELSE [kind |-> "return", value |-> value]

filter_sms_uri_helper(value) ==
  IF ~ReSearch(FILTER_FOR_FILTER_SMS_URI, TRUE, value)
    THEN [kind |-> "return", value |-> about_invalid_zSoyz]
    ELSE [kind |-> "return", value |-> value]

filter_tel_uri_helper(value) ==
  IF ~ReSearch(FILTER_FOR_FILTER_TEL_URI, TRUE, value)
    THEN [kind |-> "return", value |-> about_invalid_zSoyz]
    ELSE [kind |-> "return", value |-> value]

filter_html_attributes_helper(value) ==
  IF ~ReSearch(FILTER_FOR_FILTER_HTML_ATTRIBUTES, TRUE, value)
    THEN [kind |-> "return", value |-> zSoyz]
    ELSE [kind |-> "return", value |-> value]

filter_html_element_name_helper(value) ==
  IF ~ReSearch(FILTER_FOR_FILTER_HTML_ELEMENT_NAME, TRUE, value)
    THEN [kind |-> "return", value |-> zSoyz]
    ELSE [kind |-> "return", value |-> value]

\* filter_csp_nonce_value that drops the newline the pattern lets through.
filter_csp_nonce_value_helper_Strips(value) ==
  IF ~ReSearch(FILTER_FOR_FILTER_CSP_NONCE_VALUE, FALSE, value)
    THEN [kind |-> "return", value |-> zSoyz]
    ELSE [kind |-> "return",
          value |-> SelectSeq(value, LAMBDA ch : ch # 10)]

filter_csp_nonce_value_helper(value) ==
  IF ~ReSearch(FILTER_FOR_FILTER_CSP_NONCE_VALUE, FALSE, value)
    THEN [kind |-> "return", value |-> zSoyz]
    ELSE [kind |-> "return", value |-> value]

FilterHelpers ==
  {"filter_css_value",
   "filter_normalize_uri",
   "filter_normalize_media_uri",
   "filter_image_data_uri",
   "filter_sip_uri",
   "filter_sms_uri",
   "filter_tel_uri",
   "filter_html_attributes",
   "filter_html_element_name",
   "filter_csp_nonce_value"}

\* The call of the filter helper of a name.
CallFilter(helper, value) ==
  CASE helper = "filter_css_value" -> filter_css_value_helper(value)
    [] helper = "filter_normalize_uri" -> filter_normalize_uri_helper(value)
    [] helper = "filter_normalize_media_uri" -> filter_normalize_media_uri_helper(value)
    [] helper = "filter_image_data_uri" -> filter_image_data_uri_helper(value)
    [] helper = "filter_sip_uri" -> filter_sip_uri_helper(value)
    [] helper = "filter_sms_uri" -> filter_sms_uri_helper(value)
    [] helper = "filter_tel_uri" -> filter_tel_uri_helper(value)
    [] helper = "filter_html_attributes" -> filter_html_attributes_helper(value)
    [] helper = "filter_html_element_name" -> filter_html_element_name_helper(value)
    [] helper = "filter_csp_nonce_value" -> filter_csp_nonce_value_helper(value)

\* Values of the kinds the filters are for, accepted and rejected ones.
FilterSamples ==
  {<<47, 97, 47, 98, 63, 99, 61, 49>>,  \* "/a/b?c=1"
   <<104, 116, 116, 112, 58, 47, 47, 97, 47, 98>>,  \* "http://a/b"
   <<72, 84, 84, 80, 83, 58, 47, 47, 97>>,  \* "HTTPS://a"
   <<102, 116, 112, 58, 47, 47, 97>>,  \* "ftp://a"
   <<98, 108, 111, 98, 58, 97>>,  \* "blob:a"
   <<109, 97, 105, 108, 116, 111, 58, 97>>,  \* "mailto:a"
   <<97, 32, 98>>,  \* "a b"
   <<97, 38, 98>>,  \* "a&b"
   <<97, 47, 98, 58, 99>>,  \* "a/b:c"
   <<65306>>,  \* U+FF1A
   <<97, 8232>>,  \* a U+2028
   <<100, 97, 116, 97, 58, 105, 109, 97, 103, 101, 47, 112, 110, 103, 59, 98, 97, 115, 101, 54, 52, 44, 65, 65, 65, 61>>,  \* "data:image/png;base64,AAA="
   <<100, 97, 116, 97, 58, 105, 109, 97, 103, 101, 47, 115, 118, 103, 59, 98, 97, 115, 101, 54, 52, 44, 65, 65, 65, 61>>,  \* "data:image/svg;base64,AAA="
   <<68, 65, 84, 65, 58, 105, 109, 97, 103, 101, 47, 106, 112, 101, 103, 59, 98, 97, 115, 101, 54, 52, 44, 97, 47, 98, 43>>,  \* "DATA:image/jpeg;base64,a/b+"
   <<100, 97, 116, 97, 58, 105, 109, 97, 103, 101, 47, 103, 105, 102, 59, 98, 97, 115, 101, 54, 52, 44>>,  \* "data:image/gif;base64,"
   <<100, 97, 116, 97, 58, 105, 109, 97, 103, 101, 47, 103, 105, 102, 59, 98, 97, 115, 101, 54, 52, 44, 122, 83, 111, 121, 122>>,  \* "data:image/gif;base64,zSoyz"
   <<115, 105, 112, 58, 97, 64, 98>>,  \* "sip:a@b"
   <<115, 109, 115, 58, 43, 49, 32, 50>>,  \* "sms:+1 2"
   <<116, 101, 108, 58, 37, 50, 51>>,  \* "tel:%23"
   <<116, 101, 108, 58, 37, 52, 49>>,  \* "tel:%41"
   <<115, 105, 112, 58>>,  \* "sip:"
   <<115, 105, 112, 58, 97, 37>>,  \* "sip:a%"
   <<116, 105, 116, 108, 101>>,  \* "title"
   <<111, 110, 99, 108, 105, 99, 107>>,  \* "onclick"
   <<79, 78, 67, 76, 73, 67, 75>>,  \* "ONCLICK"
   <<115, 114, 99>>,  \* "src"
   <<104, 114, 101, 102>>,  \* "href"
   <<104, 114, 101, 102, 32>>,  \* "href"
   <<104, 114, 101, 102, 115>>,  \* "hrefs"
   <<100, 97, 116, 97, 45, 97>>,  \* "data-a"
   <<100, 97, 116, 97>>,  \* "data"
   <<115, 116, 121, 108, 101>>,  \* "style"
   <<99, 108, 97, 115, 115>>,  \* "class"
   <<100, 105, 118>>,  \* "div"
   <<115, 99, 114, 105, 112, 116>>,  \* "script"
   <<83, 67, 82, 73, 80, 84>>,  \* "SCRIPT"
   <<115, 99, 114, 105, 112>>,  \* "scrip"
   <<120, 109, 112, 49>>,  \* "xmp1"
   <<109, 121, 45, 101, 108>>,  \* "my-el"
   <<97, 98, 99>>,  \* "abc"
   <<97, 98, 99, 61>>,  \* "abc="
   <<97, 98, 99, 61, 61>>,  \* "abc=="
   <<97, 98, 99, 61, 61, 61>>,  \* "abc==="
   <<97, 98, 99, 10>>,  \* abc U+000A
   <<97, 98, 99, 61, 10>>,  \* abc= U+000A
   <<>>,  \* ""
   <<114, 101, 100>>,  \* "red"
   <<35, 102, 102, 102>>,  \* "#fff"
   <<49, 46, 53, 101, 109>>,  \* "1.5em"
   <<49, 48, 37>>,  \* "10%"
   <<114, 103, 98, 40, 49, 44, 50, 44, 51, 41>>,  \* "rgb(1,2,3)"
   <<114, 103, 98, 40, 49, 44, 50, 44, 51>>,  \* "rgb(1,2,3"
   <<101, 120, 112, 114, 101, 115, 115, 105, 111, 110, 40, 97, 41>>,  \* "expression(a)"
   <<45, 109, 111, 122, 45, 98, 105, 110, 100, 105, 110, 103>>,  \* "-moz-binding"
   <<97, 44, 98, 32, 99>>,  \* "a,b c"
   <<33, 105, 109, 112, 111, 114, 116, 97, 110, 116>>,  \* "!important"
   <<97, 47, 98>>,  \* "a/b"
   <<97, 47, 47, 98>>,  \* "a//b"
   <<97, 47, 42, 98>>,  \* "a/(star)b"
   <<99, 97, 108, 99, 40, 49, 43, 50, 41>>,  \* "calc(1+2)"
   <<117, 114, 108, 40, 97, 41>>,  \* "url(a)"
   <<114, 103, 98, 97, 40, 114, 103, 98, 40, 49, 41, 44, 50, 41>>,  \* "rgba(rgb(1),2)"
   <<97, 59, 98>>,  \* "a;b"
   <<122, 83, 111, 121, 122>>,  \* "zSoyz"
   <<97, 98, 111, 117, 116, 58, 105, 110, 118, 97, 108, 105, 100, 35, 122, 83, 111, 121, 122>>}  \* "about:invalid#zSoyz"

\* a : / & SP = LF (
FilterAlphabet == {97, 58, 47, 38, 32, 61, 10, 40}

\* javascript:
JAVASCRIPT == <<106, 97, 118, 97, 115, 99, 114, 105, 112, 116, 58>>

Upper(ch) == IF ch \in 97..122 THEN ch - 32 ELSE ch

\* javascript: with its first letters, or one of its letters, in capitals.
JavascriptCases ==
  {[i \in 1..Len(JAVASCRIPT) |-> IF i \in U THEN Upper(JAVASCRIPT[i]) ELSE JAVASCRIPT[i]] :
     U \in {1..k : k \in 0..10} \cup {{k} : k \in 1..10}}

FilterInputs ==
  FilterSamples
    \cup SeqsUpTo(FilterAlphabet, MaxFilterLen)
    \cup {j \o rest : j \in JavascriptCases,
                      rest \in SeqsUpTo(FilterAlphabet, MaxFilterLen - 1)}

----------------------------------------------------------------------------
(* The escapers and the filters called on strings.                         *)

\* A helper is about to be called on a string.
InitSanitize ==
  /\ registry = [k \in {} |-> NoEntry]
  /\ seen = [k \in {} |-> {}]
  /\ RestIdle
  /\ \/ \E helper \in EscapeHelpers, value \in EscapeInputs :
          last = [op |-> "call", helper |-> helper, value |-> value]
     \/ \E helper \in FilterHelpers, value \in FilterInputs :
          last = [op |-> "call", helper |-> helper, value |-> value]

EscapeCall ==
  /\ last.op = "call"
  /\ last.helper \in EscapeHelpers
  /\ last' = [op |-> "escape", helper |-> last.helper, value |-> last.value,
              result |-> CallEscape(last.helper, last.value)]
  /\ UNCHANGED <<registry, seen, order, rthreads, instances, bthreads>>

FilterCall ==
  /\ last.op = "call"
  /\ last.helper \in FilterHelpers
  /\ last' = [op |-> "filter", helper |-> last.helper, value |-> last.value,
              result |-> CallFilter(last.helper, last.value)]
  /\ UNCHANGED <<registry, seen, order, rthreads, instances, bthreads>>

NextSanitize == EscapeCall \/ FilterCall

SpecSanitize == InitSanitize /\ [][NextSanitize]_vars

\* C11: an escape helper replaces every character of its context's matcher
\* class by exactly the entry of the context's table and returns every other
\* character as it is, position by position: a one-character value gives the
\* table entry or the character, and a longer value gives what its
\* characters give, in order.
C11_EscapeByTable ==
  last.op = "escape" =>
    /\ last.result.kind = "return"
    /\ Len(last.value) = 1 =>
         last.result.value =
           IF last.value[1] \in MatcherOf(last.helper)
             THEN EscapeMapOf(last.helper)[last.value[1]]
             ELSE last.value
    /\ last.result.value =
         Join([i \in 1..Len(last.value) |->
                 CallEscape(last.helper, <<last.value[i]>>).value])

\* escape_html was called on a value with a character of its class next to
\* one outside it.
C11_Witness ==
  /\ last.op = "escape"
  /\ last.helper = "escape_html"
  /\ last.value = <<38, 97>>
  /\ last.result.value = <<38, 97, 109, 112, 59, 97>>

SentinelOf(helper) ==
  CASE helper \in {"filter_css_value", "filter_html_attributes",
                   "filter_html_element_name", "filter_csp_nonce_value"} -> zSoyz
    [] helper \in {"filter_normalize_uri", "filter_normalize_media_uri",
                   "filter_sip_uri", "filter_sms_uri", "filter_tel_uri"} ->
         about_invalid_zSoyz
    [] helper = "filter_image_data_uri" -> data_image_gif_zSoyz

\* The pattern of each filter and whether it is compiled with re.I.
PatternOf(helper) ==
  CASE helper = "filter_css_value" -> FILTER_FOR_FILTER_CSS_VALUE
    [] helper = "filter_normalize_uri" -> FILTER_FOR_FILTER_NORMALIZE_URI
    [] helper = "filter_normalize_media_uri" -> FILTER_FOR_FILTER_NORMALIZE_MEDIA_URI
    [] helper = "filter_image_data_uri" -> FILTER_FOR_FILTER_IMAGE_DATA_URI
    [] helper = "filter_sip_uri" -> FILTER_FOR_FILTER_SIP_URI
    [] helper = "filter_sms_uri" -> FILTER_FOR_FILTER_SMS_URI
    [] helper = "filter_tel_uri" -> FILTER_FOR_FILTER_TEL_URI
    [] helper = "filter_html_attributes" -> FILTER_FOR_FILTER_HTML_ATTRIBUTES
    [] helper = "filter_html_element_name" -> FILTER_FOR_FILTER_HTML_ELEMENT_NAME
    [] helper = "filter_csp_nonce_value" -> FILTER_FOR_FILTER_CSP_NONCE_VALUE

IgnoreCaseOf(helper) == helper # "filter_csp_nonce_value"

Accepted(helper, value) == ReSearch(PatternOf(helper), IgnoreCaseOf(helper), value)

CompositeFilters == {"filter_normalize_uri", "filter_normalize_media_uri"}

\* C13 as stated: every filter helper returns its input unchanged or its
\* sentinel.
C13_InputOrSentinel ==
  last.op = "filter" =>
    last.result.value \in {last.value, SentinelOf(last.helper)}

\* C13: the eight plain filters return their input unchanged or their
\* sentinel; filter_normalize_uri and filter_normalize_media_uri return
\* normalize_uri of their input or their sentinel.
C13_InputOrNormalizedOrSentinel ==
  last.op = "filter" =>
    IF last.helper \in CompositeFilters
      THEN last.result.value \in
             {normalize_uri_helper(last.value).value, SentinelOf(last.helper)}
      ELSE last.result.value \in {last.value, SentinelOf(last.helper)}

\* filter_normalize_uri returned a value that is neither its input nor its
\* sentinel.
C13_Witness ==
  /\ last.op = "filter"
  /\ last.helper = "filter_normalize_uri"
  /\ last.value = <<97, 32>>
  /\ last.result.value = <<97, 37, 50, 48>>

\* C14: a value that fails a filter's pattern gives exactly the filter's
\* literal sentinel: zSoyz, about:invalid#zSoyz or
\* data:image/gif;base64,zSoyz.
C14_RejectedGivesSentinel ==
  (last.op = "filter" /\ ~Accepted(last.helper, last.value)) =>
    /\ last.result.value = SentinelOf(last.helper)
    /\ last.helper \in {"filter_css_value", "filter_html_attributes",
                        "filter_html_element_name", "filter_csp_nonce_value"}
         => last.result.value = <<122, 83, 111, 121, 122>>
    /\ last.helper = "filter_image_data_uri"
         => last.result.value = data_image_gif_zSoyz

\* filter_image_data_uri rejected an image type outside its list.
C14_Witness ==
  /\ last.op = "filter"
  /\ last.helper = "filter_image_data_uri"
  /\ ~Accepted(last.helper, last.value)
  /\ Len(last.value) > 20
  /\ last.result.value = data_image_gif_zSoyz

\* C15: filter_normalize_uri and filter_normalize_media_uri test their
\* pattern on the raw input; an accepted input returns normalize_uri of it
\* and a rejected one the sentinel.
C15_ValidateThenEscape ==
  (last.op = "filter" /\ last.helper \in CompositeFilters) =>
    last.result =
      IF Accepted(last.helper, last.value)
        THEN normalize_uri_helper(last.value)
        ELSE [kind |-> "return", value |-> about_invalid_zSoyz]

\* filter_normalize_media_uri accepted a value with a character of the
\* percent-encoding table and returned it encoded.
C15_Witness ==
  /\ last.op = "filter"
  /\ last.helper = "filter_normalize_media_uri"
  /\ Accepted(last.helper, last.value)
  /\ \E i \in 1..Len(last.value) :
       last.value[i] \in MATCHER_FOR_NORMALIZE_URI__AND__FILTER_NORMALIZE_URI__AND__FILTER_NORMALIZE_MEDIA_URI
  /\ last.result.value # last.value
  /\ last.result.value # about_invalid_zSoyz

\* Whether value begins with javascript: in some letter case.
BeginsWithJavascript(value) ==
  /\ Len(value) >= Len(JAVASCRIPT)
  /\ \A i \in 1..Len(JAVASCRIPT) : Upper(value[i]) = Upper(JAVASCRIPT[i])

\* The part of value before its first / ? or #.
FirstSegment(value) ==
  LET stops == {i \in 1..Len(value) : value[i] \in {47, 63, 35}}
  IN  IF stops = {} THEN value
      ELSE SubSeq(value, 1, (CHOOSE i \in stops : \A j \in stops : i <= j) - 1)

\* A path without a scheme: no colon before the first / ? or #.
SchemeFree(value) ==
  \A i \in 1..Len(FirstSegment(value)) : FirstSegment(value)[i] # 58

NoTableChar(value) ==
  \A i \in 1..Len(value) :
    value[i] \notin MATCHER_FOR_NORMALIZE_URI__AND__FILTER_NORMALIZE_URI__AND__FILTER_NORMALIZE_MEDIA_URI

\* C16 as stated: filter_normalize_uri returns its sentinel for an input
\* that begins with javascript: in any letter case, and returns every
\* scheme-free path without a character of the percent-encoding table
\* unchanged.
C16_JavascriptRejectedPathKept ==
  (last.op = "filter" /\ last.helper = "filter_normalize_uri") =>
    /\ BeginsWithJavascript(last.value)
         => last.result.value = about_invalid_zSoyz
    /\ (SchemeFree(last.value) /\ NoTableChar(last.value))
         => last.result.value = last.value

\* C16: filter_normalize_uri returns its sentinel for an input that begins
\* with javascript: in any letter case, and returns unchanged a scheme-free
\* path without a character of the percent-encoding table whose part before
\* the first / ? or # has no ampersand.
C16_JavascriptRejectedPlainPathKept ==
  (last.op = "filter" /\ last.helper = "filter_normalize_uri") =>
    /\ BeginsWithJavascript(last.value)
         => last.result.value = about_invalid_zSoyz
    /\ (/\ SchemeFree(last.value)
        /\ NoTableChar(last.value)
        /\ \A i \in 1..Len(FirstSegment(last.value)) :
             FirstSegment(last.value)[i] # 38)
         => last.result.value = last.value

\* filter_normalize_uri rejected javascript: written with capitals.
C16_Witness ==
  /\ last.op = "filter"
  /\ last.helper = "filter_normalize_uri"
  /\ BeginsWithJavascript(last.value)
  /\ last.value[1] = 74
  /\ Len(last.value) > Len(JAVASCRIPT)
  /\ last.result.value = about_invalid_zSoyz

----------------------------------------------------------------------------
(* runtime.py: type_safe_add and type_safe_eq.  A Python value is a record *)
(* with its type; a str is the sequence of its characters; a float is      *)
(* counted in halves, which float arithmetic adds without rounding.  A     *)
(* number is counted from 0 or, when big, from 2^53 on, where a float      *)
(* holds every second integer only.                                        *)

None == [t |-> "none"]
BoolV(b) == [t |-> "bool", b |-> b]
IntV(n) == [t |-> "int", big |-> FALSE, n |-> n]
FloatV(halves) == [t |-> "float", big |-> FALSE, halves |-> halves]
\* The int 2^53 + above, and the float 2^53 + above for an even above.
BigIntV(above) == [t |-> "int", big |-> TRUE, n |-> above]
BigFloatV(above) == [t |-> "float", big |-> TRUE, halves |-> 2 * above]
StringV(chars) == [t |-> "str", chars |-> chars]
\* An instance of a class that defines no operator and no conversion.
Obj == [t |-> "object"]

\* _NUMBER_TYPES: bool is a subclass of int.
IsNumber(value) == value.t \in {"bool", "int", "float"}
IsString(value) == value.t = "str"

\* Whether a number is counted from 2^53 on.
IsBig(value) == value.t \in {"int", "float"} /\ value.big

\* The number a bool, int or float stands for, in halves, counted from 0 or,
\* for a big number, from 2^53 on.
Halves(value) ==
  CASE value.t = "bool" -> IF value.b THEN 2 ELSE 0
    [] value.t = "int" -> 2 * value.n
    [] value.t = "float" -> value.halves

Digits == <<"0", "1", "2", "3", "4", "5", "6", "7", "8", "9">>

\* str(n) of an int n >= 0.
RECURSIVE IntToStr(_)
IntToStr(n) ==
  IF n < 10 THEN <<Digits[n + 1]>>
  ELSE IntToStr(n \div 10) \o <<Digits[(n % 10) + 1]>>

\* The digits of 2^53 = 9007199254740992 before its last.
BigDigits ==
  <<"9", "0", "0", "7", "1", "9", "9", "2", "5", "4", "7", "4", "0", "9", "9">>

\* str(value); of a big number for 2^53 to 2^53 + 7.
PyStr(value) ==
  CASE value.t = "none" -> <<"N", "o", "n", "e">>
    [] value.t = "bool" ->
         IF value.b THEN <<"T", "r", "u", "e">> ELSE <<"F", "a", "l", "s", "e">>
    [] value.t = "int" ->
         IF value.big THEN BigDigits \o IntToStr(2 + value.n)
         ELSE IntToStr(value.n)
    [] value.t = "float" ->
         IF value.big
           THEN BigDigits \o IntToStr(2 + (value.halves \div 2)) \o <<".", "0">>
           ELSE IntToStr(value.halves \div 2)
                  \o (IF value.halves % 2 = 0 THEN <<".", "0">> ELSE <<".", "5">>)
    [] value.t = "str" -> value.chars
    [] value.t = "object" -> <<"<", "o", ">">>

\* str.lower() over the characters str(bool) is made of.
Lower(chars) ==
  [i \in 1..Len(chars) |->
     CASE chars[i] = "T" -> "t"
       [] chars[i] = "F" -> "f"
       [] OTHER -> chars[i]]

\* _convert_to_js_string without the .lower() of the bool branch.
ConvertToJsString_NoLower(value) ==
  IF value.t = "none" THEN StringV(<<"n", "u", "l", "l">>)
  ELSE StringV(PyStr(value))

ConvertToJsString(value) ==
  IF value.t = "none" THEN StringV(<<"n", "u", "l", "l">>)
  ELSE IF value.t = "bool" THEN StringV(Lower(PyStr(value)))
  ELSE StringV(PyStr(value))

TypeError == [t |-> "TypeError"]
ValueError == [t |-> "ValueError"]
Raised(outcome) == outcome.t \in {"TypeError", "ValueError"}

\* left + right: numbers add (a float if either is one, else an int), strs
\* concatenate, every other pair raises TypeError.  The numbers added are
\* counted from 0.
Plus(left, right) ==
  IF IsNumber(left) /\ IsNumber(right)
    THEN IF left.t = "float" \/ right.t = "float"
           THEN FloatV(Halves(left) + Halves(right))
           ELSE IntV((Halves(left) + Halves(right)) \div 2)
    ELSE IF IsString(left) /\ IsString(right)
      THEN StringV(left.chars \o right.chars)
      ELSE TypeError

\* One turn of the loop of type_safe_add on arg, from result and is_string.
\* A TypeError raised inside the except clause leaves the function.
AddStep(state, arg) ==
  IF state.raised THEN state
  ELSE
    LET tried == Plus(state.result,
                      IF state.is_string THEN ConvertToJsString(arg) ELSE arg)
    IN  IF ~Raised(tried)
          THEN [state EXCEPT !.result = tried]
          ELSE IF arg = None
            THEN LET again == Plus(state.result, BoolV(FALSE))
                 IN  IF Raised(again)
                       THEN [state EXCEPT !.raised = TRUE]
                       ELSE [state EXCEPT !.result = again]
            ELSE [result |-> Plus(ConvertToJsString(state.result),
                                  ConvertToJsString(arg)),
                  is_string |-> TRUE, raised |-> FALSE]

\* result, is_string and whether TypeError left the function, after the
\* first k of args (k >= 1; the first is the initial result).
RECURSIVE AddFold(_, _)
AddFold(args, k) ==
  IF k = 1
    THEN [result |-> args[1], is_string |-> IsString(args[1]), raised |-> FALSE]
    ELSE AddStep(AddFold(args, k - 1), args[k])

type_safe_add(args) ==
  IF Len(args) = 0 THEN [kind |-> "return", value |-> None]
  ELSE IF Len(args) = 1 THEN [kind |-> "return", value |-> args[1]]
  ELSE LET end == AddFold(args, Len(args))
       IN  IF end.raised THEN [kind |-> "TypeError"]
           ELSE [kind |-> "return", value |-> end.result]

Space == {" "}

\* chars without the white space at its two ends.
RECURSIVE Strip(_)
Strip(chars) ==
  IF chars = <<>> THEN chars
  ELSE IF Head(chars) \in Space THEN Strip(Tail(chars))
  ELSE IF chars[Len(chars)] \in Space THEN Strip(SubSeq(chars, 1, Len(chars) - 1))
  ELSE chars

DigitValue(ch) == CHOOSE d \in 0..9 : Digits[d + 1] = ch
IsDigits(chars) == \A i \in 1..Len(chars) : \E d \in 1..10 : Digits[d] = chars[i]

RECURSIVE StrToInt(_)
StrToInt(chars) ==
  IF chars = <<>> THEN 0
  ELSE 10 * StrToInt(SubSeq(chars, 1, Len(chars) - 1)) + DigitValue(chars[Len(chars)])

\* float(str): white space around is ignored; digits, with a fraction after
\* a point, are a number; a text that is no number raises ValueError.  The
\* fractions written are .0 and .5 and zeros after them.
ParseFloat(chars) ==
  LET text == Strip(chars)
      dots == {i \in 1..Len(text) : text[i] = "."}
      dot == IF dots = {} THEN Len(text) + 1 ELSE CHOOSE i \in dots : TRUE
      whole == SubSeq(text, 1, dot - 1)
      frac == SubSeq(text, dot + 1, Len(text))
  IN  IF \/ Cardinality(dots) > 1
         \/ ~IsDigits(whole) \/ ~IsDigits(frac)
         \/ whole = <<>> /\ frac = <<>>
        THEN ValueError
        ELSE FloatV(2 * StrToInt(whole)
                     + (IF frac # <<>> /\ Head(frac) = "5" THEN 1 ELSE 0))

\* The float nearest to the int 2^53 + above, as what it is above 2^53: the
\* floats there are the even integers, and of two that are as near the one
\* with the even mantissa is taken.
RoundAbove(above) ==
  IF above % 2 = 0 THEN above
  ELSE IF above % 4 = 1 THEN above - 1
  ELSE above + 1

\* float(value).
PyFloat(value) ==
  CASE IsNumber(value) ->
         IF IsBig(value)
           THEN (IF value.t = "float" THEN value
                 ELSE BigFloatV(RoundAbove(value.n)))
           ELSE FloatV(Halves(value))
    [] value.t = "str" -> ParseFloat(value.chars)
    [] OTHER -> TypeError

\* first == second: numbers by value, strs by characters, None with None,
\* an object with itself.
PyEq(first, second) ==
  IF IsNumber(first) /\ IsNumber(second)
    THEN IsBig(first) = IsBig(second) /\ Halves(first) = Halves(second)
  ELSE first = second

\* type(first) == type(second).
SameType(first, second) == first.t = second.t

type_safe_eq(first, second) ==
  IF first = None \/ second = None \/ SameType(first, second)
    THEN [kind |-> "return", value |-> PyEq(first, second)]
  ELSE IF IsNumber(first) /\ first.t # "bool"
    THEN LET number == PyFloat(second)
         IN  IF number = TypeError THEN [kind |-> "TypeError"]
             ELSE IF number = ValueError
               THEN [kind |-> "return", value |-> PyEq(first, second)]
               ELSE [kind |-> "return", value |-> PyEq(first, number)]
  ELSE IF IsNumber(second) /\ second.t # "bool"
    THEN LET number == PyFloat(first)
         IN  IF number = TypeError THEN [kind |-> "TypeError"]
             ELSE IF number = ValueError
               THEN [kind |-> "return", value |-> PyEq(first, second)]
               ELSE [kind |-> "return", value |-> PyEq(number, second)]
  ELSE IF IsString(first)
    THEN [kind |-> "return", value |-> first.chars = PyStr(second)]
  ELSE IF IsString(second)
    THEN [kind |-> "return", value |-> PyStr(first) = second.chars]
  ELSE [kind |-> "return", value |-> PyEq(first, second)]

\* Operands of type_safe_add: None, True, False, 3, 1.5, 'abc', '' and an
\* object.
AddValues ==
  {None, BoolV(TRUE), BoolV(FALSE), IntV(3), FloatV(3), StringV(<<"a", "b", "c">>),
   StringV(<<>>), Obj}

\* Operands of type_safe_eq: None, True, False, 0, 1, 2, 2.0, 1.5, 2^53,
\* 2^53 + 1, 2^53 + 3, the floats 2^53 and 2^53 + 4, an object, and the strs
\* '1', '2', '2.0', '1.5', ' 1 ', 'a', '', 'True', 'true', '<o>'.
EqValues ==
  {None, BoolV(TRUE), BoolV(FALSE), IntV(0), IntV(1), IntV(2), FloatV(4), FloatV(3),
   BigIntV(0), BigIntV(1), BigIntV(3), BigFloatV(0), BigFloatV(4),
   Obj, StringV(<<"1">>), StringV(<<"2">>), StringV(<<"2", ".", "0">>),
   StringV(<<"1", ".", "5">>), StringV(<<" ", "1", " ">>), StringV(<<"a">>), StringV(<<>>),
   StringV(<<"T", "r", "u", "e">>), StringV(<<"t", "r", "u", "e">>),
   StringV(<<"<", "o", ">">>)}

----------------------------------------------------------------------------
(* type_safe_add and type_safe_eq called on values.                        *)

\* A function is about to be called on its arguments.
InitCoerce ==
  /\ registry = [k \in {} |-> NoEntry]
  /\ seen = [k \in {} |-> {}]
  /\ RestIdle
  /\ \/ \E args \in SeqsUpTo(AddValues, MaxArgs) :
          last = [op |-> "call", fn |-> "type_safe_add", args |-> args]
     \/ \E first \in EqValues, second \in EqValues :
          last = [op |-> "call", fn |-> "type_safe_eq", args |-> <<first, second>>]

AddCall ==
  /\ last.op = "call"
  /\ last.fn = "type_safe_add"
  /\ last' = [op |-> "add", args |-> last.args, result |-> type_safe_add(last.args)]
  /\ UNCHANGED <<registry, seen, order, rthreads, instances, bthreads>>

EqCall ==
  /\ last.op = "call"
  /\ last.fn = "type_safe_eq"
  /\ last' = [op |-> "eq", args |-> last.args,
              result |-> type_safe_eq(last.args[1], last.args[2])]
  /\ UNCHANGED <<registry, seen, order, rthreads, instances, bthreads>>

NextCoerce == AddCall \/ EqCall

SpecCoerce == InitCoerce /\ [][NextCoerce]_vars

Returns(value) == [kind |-> "return", value |-> value]

JsLiteral(value) ==
  CASE value.t = "none" -> <<"n", "u", "l", "l">>
    [] value.t = "bool" ->
         IF value.b THEN <<"t", "r", "u", "e">> ELSE <<"f", "a", "l", "s", "e">>
    [] OTHER -> PyStr(value)

\* Whether the running result is a string after the first k operands.
StringAfter(args, k) ==
  ~AddFold(args, k).raised /\ IsString(AddFold(args, k).result)

Total(value) == IF value = None THEN 0 ELSE Halves(value)

\* C19: in type_safe_add, null added to a running total that is a number, a
\* boolean or null does not raise and does not switch to string mode, and
\* the total keeps its numeric value; null as the first operand followed by
\* an operand that is not null switches to string mode.
C19_NullAddsZero ==
  (last.op = "add" /\ Len(last.args) >= 2) =>
    /\ \A k \in 1..(Len(last.args) - 1) :
         (/\ ~AddFold(last.args, k).raised
          /\ AddFold(last.args, k).result.t \in {"none", "bool", "int", "float"}
          /\ last.args[k + 1] = None)
           => /\ ~AddFold(last.args, k + 1).raised
              /\ ~AddFold(last.args, k + 1).is_string
              /\ AddFold(last.args, k + 1).result.t \in {"none", "bool", "int", "float"}
              /\ Total(AddFold(last.args, k + 1).result) =
                   Total(AddFold(last.args, k).result)
    /\ (last.args[1] = None /\ last.args[2] # None) =>
         StringAfter(last.args, 2)

\* The type of a value among null, boolean, number, string and object.
Kind(value) == IF value.t \in {"int", "float"} THEN "number" ELSE value.t

\* What the comparison of a number with the other side coerced to a number
\* gives: false when the other side is no number.
NumberEq(number, other) ==
  IF IsNumber(other) THEN PyEq(number, other)
  ELSE IF IsString(other) /\ ~Raised(ParseFloat(other.chars))
    THEN PyEq(number, ParseFloat(other.chars))
    ELSE FALSE

\* C20: type_safe_eq never raises; operands of one type compare directly;
\* with a null operand the result is plain equality; else with exactly one
\* number that is no boolean the other side is coerced to a number, and a
\* failure to parse gives false; else with exactly one string the other side
\* is stringified and compared; every other pair is unequal.
C20_EqCoerces ==
  last.op = "eq" =>
    LET first == last.args[1]
        second == last.args[2]
    IN  /\ last.result.kind = "return"
        /\ last.result.value =
             IF Kind(first) = Kind(second) THEN PyEq(first, second)
             ELSE IF first = None \/ second = None THEN FALSE
             ELSE IF Kind(first) = "number" THEN NumberEq(first, second)
             ELSE IF Kind(second) = "number" THEN NumberEq(second, first)
             ELSE IF IsString(first) THEN first.chars = PyStr(second)
             ELSE IF IsString(second) THEN PyStr(first) = second.chars
             ELSE FALSE

----------------------------------------------------------------------------
(* bidi.py: direction estimation and the formatter methods on text.        *)

\* \d under re.UNICODE: the decimal digits of every script.
NUMERALS ==
  (48..57) \cup (1632..1641) \cup (1776..1785) \cup (1984..1993) \cup
  (2406..2415) \cup (2534..2543) \cup (2662..2671) \cup (2790..2799)
  \cup (2918..2927) \cup (3046..3055) \cup (3174..3183) \cup
  (3302..3311) \cup (3430..3439) \cup (3558..3567) \cup (3664..3673)
  \cup (3792..3801) \cup (3872..3881) \cup (4160..4169) \cup
  (4240..4249) \cup (6112..6121) \cup (6160..6169) \cup (6470..6479)
  \cup (6608..6617) \cup (6784..6793) \cup (6800..6809) \cup
  (6992..7001) \cup (7088..7097) \cup (7232..7241) \cup (7248..7257)
  \cup (42528..42537) \cup (43216..43225) \cup (43264..43273) \cup
  (43472..43481) \cup (43504..43513) \cup (43600..43609) \cup
  (44016..44025) \cup (65296..65305) \cup (66720..66729) \cup
  (68912..68921) \cup (69734..69743) \cup (69872..69881) \cup
  (69942..69951) \cup (70096..70105) \cup (70384..70393) \cup
  (70736..70745) \cup (70864..70873) \cup (71248..71257) \cup
  (71360..71369) \cup (71472..71481) \cup (71904..71913) \cup
  (72016..72025) \cup (72784..72793) \cup (73040..73049) \cup
  (73120..73129) \cup (92768..92777) \cup (92864..92873) \cup
  (93008..93017) \cup (120782..120831) \cup (123200..123209) \cup
  (123632..123641) \cup (125264..125273) \cup (130032..130041)

\* _HAS_NUMERALS_RE = re.compile(r'\d')
HAS_NUMERALS_RE == Class(NUMERALS)

\* _HTML_SKIP_RE = re.compile('<[^>]*>|&[^;]+;')
HTML_SKIP_RE ==
  Alt(<<
    Cat(<<Lit(<<60>>), Rep(NotClass({62}), 0, Unbounded), Lit(<<62>>)>>),
    Cat(<<Lit(<<38>>), Rep(NotClass({59}), 1, Unbounded), Lit(<<59>>)>>)>>)

\* _IS_REQUIRED_LTR_RE = re.compile(r'^http[s]?://.*')
IS_REQUIRED_LTR_RE ==
  Cat(<<
    Bos,
    Lit(<<104, 116, 116, 112>>),  \* http
    Rep(Class({115}), 0, 1),
    Lit(<<58, 47, 47>>),  \* ://
    Rep(NotClass({10}), 0, Unbounded)>>)

\* A-Za-z U+00C0-U+00D6 U+00D8-U+00F6 U+00F8-U+02B8 U+0300-U+0590
\* U+0800-U+1FFF U+200E U+2C00-U+FB1C U+FE00-U+FE6F U+FEFD-U+FFFF
LTR_CHARS ==
  (65..90) \cup (97..122) \cup (192..214) \cup (216..246) \cup (248..696)
    \cup (768..1424) \cup (2048..8191) \cup {8206} \cup (11264..64284)
    \cup (65024..65135) \cup (65277..65535)

\* U+0591-U+07FF U+200F U+FB1D-U+FDFF U+FE70-U+FEFC
RTL_CHARS ==
  (1425..2047) \cup {8207} \cup (64285..65023) \cup (65136..65276)

\* _LTR_CHARS_RE = re.compile('[' + _LTR_CHARS + ']')
LTR_CHARS_RE == Class(LTR_CHARS)

\* The same pattern without its ^[^LTR]*: an RTL character anywhere.
RTL_DIR_CHECK_RE_Anywhere == Class(RTL_CHARS)

\* _RTL_DIR_CHECK_RE = re.compile('^[^' + _LTR_CHARS + ']*[' + _RTL_CHARS + ']')
RTL_DIR_CHECK_RE ==
  Cat(<<Bos, Rep(NotClass(LTR_CHARS), 0, Unbounded), Class(RTL_CHARS)>>)

\* _LTR_EXIT_DIR_CHECK_RE = re.compile('[' + _LTR_CHARS + '][^' + _RTL_CHARS + ']*$')
LTR_EXIT_DIR_CHECK_RE ==
  Cat(<<Class(LTR_CHARS), Rep(NotClass(RTL_CHARS), 0, Unbounded), Eol>>)

\* _RTL_EXIT_DIR_CHECK_RE = re.compile('[' + _RTL_CHARS + '][^' + _LTR_CHARS + ']*$')
RTL_EXIT_DIR_CHECK_RE ==
  Cat(<<Class(RTL_CHARS), Rep(NotClass(LTR_CHARS), 0, Unbounded), Eol>>)

\* _RTL_ESTIMATION_THRESHOLD = 0.40, in hundredths.
RTL_ESTIMATION_THRESHOLD == 40

FORMAT_LRE == 8234
FORMAT_RLE == 8235
FORMAT_PDF == 8236
FORMAT_LRM == 8206
FORMAT_RLM == 8207

\* pattern.sub('', value) from position i on: the leftmost matches are
\* dropped, one after the other, and the other characters kept.
RECURSIVE SubEmpty(_, _, _)
SubEmpty(pattern, value, i) ==
  IF i >= Len(value) THEN <<>>
  ELSE LET ends == Ends(pattern, value, {i}, FALSE)
       IN  IF ends = {} THEN <<value[i + 1]>> \o SubEmpty(pattern, value, i + 1)
           ELSE SubEmpty(pattern, value, Max(ends))

strip_html_if_needed(value, is_html) ==
  IF is_html THEN SubEmpty(HTML_SKIP_RE, value, 0) ELSE value

\* value.split(): the runs of characters that are no white space.
RECURSIVE Split(_)
Split(value) ==
  IF value = <<>> THEN <<>>
  ELSE IF Head(value) \in WHITESPACE THEN Split(Tail(value))
  ELSE LET stops == {i \in 1..Len(value) : value[i] \in WHITESPACE}
           stop == IF stops = {} THEN Len(value) + 1
                   ELSE CHOOSE i \in stops : \A j \in stops : i <= j
       IN  <<SubSeq(value, 1, stop - 1)>> \o Split(SubSeq(value, stop, Len(value)))

\* The branch of the if/elif chain of _estimate_direction a token takes.
TokenBranch(token) ==
  IF ReSearch(RTL_DIR_CHECK_RE, FALSE, token) THEN "rtl"
  ELSE IF ReSearch(IS_REQUIRED_LTR_RE, FALSE, token) THEN "required_ltr"
  ELSE IF ReSearch(LTR_CHARS_RE, FALSE, token) THEN "ltr"
  ELSE IF ReSearch(HAS_NUMERALS_RE, FALSE, token) THEN "numerals"
  ELSE "none"

\* rtl_count, total_count and has_weakly_ltr after the loop over the tokens.
Counts(tokens) ==
  LET branch == [i \in 1..Len(tokens) |-> TokenBranch(tokens[i])]
  IN  [rtl_count |-> Cardinality({i \in 1..Len(tokens) : branch[i] = "rtl"}),
       total_count |-> Cardinality({i \in 1..Len(tokens) : branch[i] \in {"rtl", "ltr"}}),
       has_weakly_ltr |-> \E i \in 1..Len(tokens) :
                            branch[i] \in {"required_ltr", "numerals"}]

\* The returns of _estimate_direction with >= in place of >.
Decide_AtLeast(counts) ==
  IF counts.total_count = 0 /\ counts.has_weakly_ltr THEN DIR_LTR
  ELSE IF counts.total_count = 0 THEN DIR_NEUTRAL
  ELSE IF 100 * counts.rtl_count >= RTL_ESTIMATION_THRESHOLD * counts.total_count
    THEN DIR_RTL
    ELSE DIR_LTR

\* The returns of _estimate_direction: float(rtl_count) / total_count >
\* _RTL_ESTIMATION_THRESHOLD, compared in hundredths.
Decide(counts) ==
  IF counts.total_count = 0 /\ counts.has_weakly_ltr THEN DIR_LTR
  ELSE IF counts.total_count = 0 THEN DIR_NEUTRAL
  ELSE IF 100 * counts.rtl_count > RTL_ESTIMATION_THRESHOLD * counts.total_count
    THEN DIR_RTL
    ELSE DIR_LTR

estimate_direction(value, is_html) ==
  Decide(Counts(Split(strip_html_if_needed(value, is_html))))

\* _ends_with_ltr(value, is_html)
ends_with_ltr(value, is_html) ==
  ReSearch(LTR_EXIT_DIR_CHECK_RE, FALSE, strip_html_if_needed(value, is_html))

\* _ends_with_rtl(value, is_html)
ends_with_rtl(value, is_html) ==
  ReSearch(RTL_EXIT_DIR_CHECK_RE, FALSE, strip_html_if_needed(value, is_html))

\* 'dir="rtl"'
DIR_ATTR_RTL == <<100, 105, 114, 61, 34, 114, 116, 108, 34>>
\* 'dir="ltr"'
DIR_ATTR_LTR == <<100, 105, 114, 61, 34, 108, 116, 114, 34>>
\* '<span '
SPAN_OPEN == <<60, 115, 112, 97, 110, 32>>
\* '</span>'
SPAN_CLOSE == <<60, 47, 115, 112, 97, 110, 62>>

\* A content_dir is None or an int; not content_dir holds of None and of 0.
Falsy(content_dir) == content_dir = None \/ content_dir = IntV(0)

\* BidiFormatter.attr with its first test left out.
BidiFormatter_attr_NoNeutralTest(direction, content_dir) ==
  IF content_dir = IntV(direction) THEN <<>>
  ELSE IF content_dir # None /\ content_dir.n < 0 THEN DIR_ATTR_RTL
  ELSE DIR_ATTR_LTR

\* BidiFormatter.attr of a formatter of the given direction.
BidiFormatter_attr(direction, content_dir) ==
  IF Falsy(content_dir) \/ content_dir = IntV(direction) THEN <<>>
  ELSE IF content_dir.n < 0 THEN DIR_ATTR_RTL
  ELSE DIR_ATTR_LTR

\* BidiFormatter.mark_after without the two exit tests.
BidiFormatter_mark_after_NoExit(direction, content_dir, text, is_html) ==
  LET is_ltr == direction = DIR_LTR
      is_rtl == direction = DIR_RTL
  IN  IF content_dir = None THEN TypeError
      ELSE IF content_dir.n * direction < 0
        THEN StringV(IF is_ltr THEN <<FORMAT_LRM>> ELSE <<FORMAT_RLM>>)
        ELSE StringV(<<>>)

\* BidiFormatter.mark_after: None * self.direction raises TypeError.
BidiFormatter_mark_after(direction, content_dir, text, is_html) ==
  LET is_ltr == direction = DIR_LTR
      is_rtl == direction = DIR_RTL
  IN  IF content_dir = None THEN TypeError
      ELSE IF \/ content_dir.n * direction < 0
              \/ (is_ltr /\ ends_with_rtl(text, is_html))
              \/ (is_rtl /\ ends_with_ltr(text, is_html))
        THEN StringV(IF is_ltr THEN <<FORMAT_LRM>> ELSE <<FORMAT_RLM>>)
        ELSE StringV(<<>>)

\* BidiFormatter.span_wrap whose mark_after is told the text is no html.
BidiFormatter_span_wrap_MarkNotHtml(direction, content_dir, text) ==
  LET use_dir == content_dir # IntV(DIR_NEUTRAL) /\ content_dir # IntV(direction)
      result == IF use_dir
                  THEN SPAN_OPEN \o BidiFormatter_attr(direction, content_dir)
                         \o <<62>> \o text \o SPAN_CLOSE
                  ELSE text
      mark == BidiFormatter_mark_after(direction, content_dir, text, FALSE)
  IN  IF Raised(mark) THEN mark ELSE StringV(result \o mark.chars)

\* BidiFormatter.span_wrap
BidiFormatter_span_wrap(direction, content_dir, text) ==
  LET use_dir == content_dir # IntV(DIR_NEUTRAL) /\ content_dir # IntV(direction)
      result == IF use_dir
                  THEN SPAN_OPEN \o BidiFormatter_attr(direction, content_dir)
                         \o <<62>> \o text \o SPAN_CLOSE
                  ELSE text
      mark == BidiFormatter_mark_after(direction, content_dir, text, TRUE)
  IN  IF Raised(mark) THEN mark ELSE StringV(result \o mark.chars)

\* BidiFormatter.unicode_wrap that wraps whatever is not of its direction.
BidiFormatter_unicode_wrap_WrapsNeutral(direction, content_dir, text, is_html) ==
  LET result == IF content_dir # IntV(direction)
                  THEN (IF content_dir = IntV(DIR_RTL)
                          THEN <<FORMAT_RLE>> ELSE <<FORMAT_LRE>>)
                         \o text \o <<FORMAT_PDF>>
                  ELSE text
      mark == BidiFormatter_mark_after(direction, content_dir, text, is_html)
  IN  IF Raised(mark) THEN mark ELSE StringV(result \o mark.chars)

\* BidiFormatter.unicode_wrap
BidiFormatter_unicode_wrap(direction, content_dir, text, is_html) ==
  LET result == IF content_dir # IntV(DIR_NEUTRAL) /\ content_dir # IntV(direction)
                  THEN (IF content_dir = IntV(DIR_RTL)
                          THEN <<FORMAT_RLE>> ELSE <<FORMAT_LRE>>)
                         \o text \o <<FORMAT_PDF>>
                  ELSE text
      mark == BidiFormatter_mark_after(direction, content_dir, text, is_html)
  IN  IF Raised(mark) THEN mark ELSE StringV(result \o mark.chars)

(* sanitize.py is not among the sources; what bidi.py uses of it follows   *)
(* the data model: a value is a plain str, or sanitized content with its   *)
(* text, its content kind and its known direction, None when unknown.      *)

PlainStr(text) == [text |-> text, kind |-> "str", content_dir |-> None]
SanitizedContent(text, kind, content_dir) ==
  [text |-> text, kind |-> kind, content_dir |-> content_dir]

\* sanitize.get_content_dir(value)
get_content_dir(value) ==
  IF value.kind = "str" THEN None ELSE value.content_dir

\* sanitize.is_content_kind(value, kind)
is_content_kind(value, kind) == value.kind = kind

\* str(value)
ContentStr(value) == value.text

\* _is_content_html(text)
is_content_html(text) == is_content_kind(text, "HTML")

\* _get_bidi_formatter(global_dir), run from the get to the return by one
\* thread: the formatter returned.
get_bidi_formatter(global_dir) ==
  LET formatter == InstancesGet(global_dir)
  IN  IF formatter = NoFormatter
        THEN [direction |-> BidiFormatterInit(global_dir), object |-> 0]
        ELSE formatter

\* BidiFormatter.instances after _get_bidi_formatter(global_dir).
InstancesAfter(global_dir) ==
  [g \in DOMAIN instances \cup {global_dir} |->
     IF g = global_dir THEN get_bidi_formatter(global_dir) ELSE instances[g]]

\* dir_attr that estimates whenever the known direction is not truthy.
dir_attr_EstimatesFalsy(global_dir, text, is_html) ==
  LET formatter == get_bidi_formatter(global_dir)
      known == get_content_dir(text)
      content_dir ==
        IF Falsy(known)
          THEN IntV(estimate_direction(ContentStr(text),
                                       is_html \/ is_content_html(text)))
          ELSE known
  IN  StringV(BidiFormatter_attr(formatter.direction, content_dir))

\* dir_attr(global_dir, text, is_html): the content of the attribute.
dir_attr(global_dir, text, is_html) ==
  LET formatter == get_bidi_formatter(global_dir)
      known == get_content_dir(text)
      content_dir ==
        IF known = None
          THEN IntV(estimate_direction(ContentStr(text),
                                       is_html \/ is_content_html(text)))
          ELSE known
  IN  StringV(BidiFormatter_attr(formatter.direction, content_dir))

\* mark_after(global_dir, text, is_html)
mark_after(global_dir, text, is_html) ==
  LET formatter == get_bidi_formatter(global_dir)
      html == is_html \/ is_content_html(text)
      known == get_content_dir(text)
      content_dir ==
        IF known = None
          THEN IntV(estimate_direction(ContentStr(text), html))
          ELSE known
  IN  BidiFormatter_mark_after(formatter.direction, content_dir,
                               ContentStr(text), html)

\* span_wrap(global_dir, text)
span_wrap(global_dir, text) ==
  LET formatter == get_bidi_formatter(global_dir)
      known == get_content_dir(text)
      content_dir ==
        IF known = None
          THEN IntV(estimate_direction(ContentStr(text), TRUE))
          ELSE known
  IN  BidiFormatter_span_wrap(formatter.direction, content_dir, ContentStr(text))

\* text_dir(text, is_html)
text_dir(text, is_html) ==
  LET known == get_content_dir(text)
  IN  IF known # None THEN known
      ELSE IntV(estimate_direction(ContentStr(text),
                                   is_html \/ is_content_html(text)))

\* unicode_wrap(global_dir, text): the text wrapped, as sanitized content of
\* the formatter's direction when text is HTML or JS string characters.
unicode_wrap(global_dir, text) ==
  LET formatter == get_bidi_formatter(global_dir)
      is_html == is_content_html(text)
      known == get_content_dir(text)
      content_dir ==
        IF known = None
          THEN IntV(estimate_direction(ContentStr(text), is_html))
          ELSE known
      wrapped_text == BidiFormatter_unicode_wrap(formatter.direction, content_dir,
                                                 ContentStr(text), is_html)
  IN  IF Raised(wrapped_text) THEN wrapped_text
      ELSE IF is_html
        THEN SanitizedContent(wrapped_text.chars, "HTML",
                              IntV(formatter.direction))
      ELSE IF is_content_kind(text, "JS_STR_CHARS")
        THEN SanitizedContent(wrapped_text.chars, "JS_STR_CHARS",
                              IntV(formatter.direction))
      ELSE PlainStr(wrapped_text.chars)

----------------------------------------------------------------------------
(* SpecFormat: one call of a function of bidi.py on a text.                *)

\* The most tokens of a text of tokens, and the most characters of a text
\* of any characters.
MaxTokens == 5
MaxTextLen == 2

\* The tokens a text is tried with: a, alef and 1.
TokenChars == {97, 1488, 49}

\* tokens, with a space between each two.
RECURSIVE Spaced(_)
Spaced(tokens) ==
  IF Len(tokens) <= 1 THEN tokens
  ELSE <<Head(tokens), 32>> \o Spaced(Tail(tokens))

TokenTexts == {Spaced(tokens) : tokens \in SeqsUpTo(TokenChars, MaxTokens)}

\* a, alef, space, < and >
FormatAlphabet == {97, 1488, 32, 60, 62}

FormatSamples ==
  {
    <<104, 116, 116, 112, 58, 47, 47, 1488>>,
    <<104, 116, 116, 112, 115, 58, 47, 47, 120>>,
    <<104, 116, 116, 112, 58, 47, 47>>,
    <<97, 1488>>,
    <<1488, 97>>,
    <<49, 1488>>,
    <<1488, 49>>,
    <<60, 98, 62, 1488, 60, 47, 98, 62>>,
    <<60, 1488, 62, 97>>,
    <<38, 97, 109, 112, 59, 1488>>,
    <<38, 1488, 59, 97>>,
    <<97, 38, 108, 116, 59>>,
    <<1488, 10>>,
    <<97, 10>>,
    <<1488, 32, 97, 10>>,
    <<1488, 1489>>,
    <<97, 32, 46>>,
    <<1488, 32, 46>>,
    <<1633>>,
    <<233>>,
    <<49, 54>>,
    <<1488, 32, 119, 111, 114, 108, 100>>,
    <<104, 105, 32, 1489>>,
    <<8207, 97>>,
    <<8206, 1488>>,
    <<60, 98, 114, 62>>,
    <<97, 60, 98, 114, 62, 1488>>,
    <<1488, 60, 98, 114, 62, 97>>,
    <<97, 60, 105, 62, 1488, 60, 47, 105, 62>>,
    <<1488, 38, 97, 59>>,
    <<45, 1488, 97>>,
    <<1488, 32, 1489, 32, 97, 32, 98, 32, 99>>
  }

FormatTexts == SeqsUpTo(FormatAlphabet, MaxTextLen) \cup FormatSamples
EstimateTexts == TokenTexts \cup FormatTexts

ContentDirs == {None, IntV(DIR_RTL), IntV(DIR_NEUTRAL), IntV(DIR_LTR)}
ContentKinds == {"HTML", "JS_STR_CHARS", "TEXT"}
Directions == {DIR_RTL, DIR_NEUTRAL, DIR_LTR}

\* The values the functions are called on: each text as a plain str and as
\* sanitized content of each kind and known direction.
Contents ==
  {PlainStr(text) : text \in FormatTexts}
    \cup {SanitizedContent(text, kind, content_dir) :
            text \in FormatTexts, kind \in ContentKinds,
            content_dir \in ContentDirs}

InitFormat ==
  /\ registry = [k \in {} |-> NoEntry]
  /\ seen = [k \in {} |-> {}]
  /\ order = IdleOrder
  /\ rthreads = IdleRThreads
  /\ bthreads = IdleBThreads
  /\ \E cached \in {{}, GlobalDirs} :
       instances = [g \in cached |->
                      [direction |-> BidiFormatterInit(g), object |-> 0]]
  /\ \/ \E value \in EstimateTexts, is_html \in BOOLEAN :
          last = [op |-> "call", fn |-> "_estimate_direction",
                  value |-> value, is_html |-> is_html]
     \/ \E direction \in Directions, content_dir \in ContentDirs :
          last = [op |-> "call", fn |-> "BidiFormatter.attr",
                  direction |-> direction, content_dir |-> content_dir]
     \/ \E direction \in Directions, content_dir \in ContentDirs,
           text \in FormatTexts, is_html \in BOOLEAN :
          last = [op |-> "call", fn |-> "BidiFormatter.mark_after",
                  direction |-> direction, content_dir |-> content_dir,
                  text |-> text, is_html |-> is_html]
     \/ \E direction \in Directions, content_dir \in ContentDirs,
           text \in FormatTexts :
          last = [op |-> "call", fn |-> "BidiFormatter.span_wrap",
                  direction |-> direction, content_dir |-> content_dir,
                  text |-> text]
     \/ \E direction \in Directions, content_dir \in ContentDirs,
           text \in FormatTexts, is_html \in BOOLEAN :
          last = [op |-> "call", fn |-> "BidiFormatter.unicode_wrap",
                  direction |-> direction, content_dir |-> content_dir,
                  text |-> text, is_html |-> is_html]
     \/ \E fn \in {"dir_attr", "mark_after"}, global_dir \in GlobalDirs,
           text \in Contents, is_html \in BOOLEAN :
          last = [op |-> "call", fn |-> fn, global_dir |-> global_dir,
                  text |-> text, is_html |-> is_html]
     \/ \E fn \in {"span_wrap", "unicode_wrap"}, global_dir \in GlobalDirs,
           text \in Contents :
          last = [op |-> "call", fn |-> fn, global_dir |-> global_dir,
                  text |-> text]
     \/ \E text \in Contents, is_html \in BOOLEAN :
          last = [op |-> "call", fn |-> "text_dir",
                  text |-> text, is_html |-> is_html]

Pending(fn) == last.op = "call" /\ last.fn = fn

EstimateDirectionCall ==
  /\ Pending("_estimate_direction")
  /\ last' = [op |-> "_estimate_direction", value |-> last.value,
              is_html |-> last.is_html,
              result |-> estimate_direction(last.value, last.is_html)]
  /\ UNCHANGED <<registry, seen, order, rthreads, instances, bthreads>>

FormatterAttrCall ==
  /\ Pending("BidiFormatter.attr")
  /\ last' = [op |-> "BidiFormatter.attr", direction |-> last.direction,
              content_dir |-> last.content_dir,
              result |-> StringV(BidiFormatter_attr(last.direction,
                                                    last.content_dir))]
  /\ UNCHANGED <<registry, seen, order, rthreads, instances, bthreads>>

FormatterMarkAfterCall ==
  /\ Pending("BidiFormatter.mark_after")
  /\ last' = [op |-> "BidiFormatter.mark_after", direction |-> last.direction,
              content_dir |-> last.content_dir, text |-> last.text,
              is_html |-> last.is_html,
              result |-> BidiFormatter_mark_after(last.direction,
                           last.content_dir, last.text, last.is_html)]
  /\ UNCHANGED <<registry, seen, order, rthreads, instances, bthreads>>

FormatterSpanWrapCall ==
  /\ Pending("BidiFormatter.span_wrap")
  /\ last' = [op |-> "BidiFormatter.span_wrap", direction |-> last.direction,
              content_dir |-> last.content_dir, text |-> last.text,
              result |-> BidiFormatter_span_wrap(last.direction,
                           last.content_dir, last.text)]
  /\ UNCHANGED <<registry, seen, order, rthreads, instances, bthreads>>

FormatterUnicodeWrapCall ==
  /\ Pending("BidiFormatter.unicode_wrap")
  /\ last' = [op |-> "BidiFormatter.unicode_wrap", direction |-> last.direction,
              content_dir |-> last.content_dir, text |-> last.text,
              is_html |-> last.is_html,
              result |-> BidiFormatter_unicode_wrap(last.direction,
                           last.content_dir, last.text, last.is_html)]
  /\ UNCHANGED <<registry, seen, order, rthreads, instances, bthreads>>

DirAttrCall ==
  /\ Pending("dir_attr")
  /\ last' = [op |-> "dir_attr", global_dir |-> last.global_dir,
              text |-> last.text, is_html |-> last.is_html,
              result |-> dir_attr(last.global_dir, last.text, last.is_html)]
  /\ instances' = InstancesAfter(last.global_dir)
  /\ UNCHANGED <<registry, seen, order, rthreads, bthreads>>

MarkAfterCall ==
  /\ Pending("mark_after")
  /\ last' = [op |-> "mark_after", global_dir |-> last.global_dir,
              text |-> last.text, is_html |-> last.is_html,
              result |-> mark_after(last.global_dir, last.text, last.is_html)]
  /\ instances' = InstancesAfter(last.global_dir)
  /\ UNCHANGED <<registry, seen, order, rthreads, bthreads>>

SpanWrapCall ==
  /\ Pending("span_wrap")
  /\ last' = [op |-> "span_wrap", global_dir |-> last.global_dir,
              text |-> last.text,
              result |-> span_wrap(last.global_dir, last.text)]
  /\ instances' = InstancesAfter(last.global_dir)
  /\ UNCHANGED <<registry, seen, order, rthreads, bthreads>>

TextDirCall ==
  /\ Pending("text_dir")
  /\ last' = [op |-> "text_dir", text |-> last.text, is_html |-> last.is_html,
              result |-> text_dir(last.text, last.is_html)]
  /\ UNCHANGED <<registry, seen, order, rthreads, instances, bthreads>>

UnicodeWrapCall ==
  /\ Pending("unicode_wrap")
  /\ last' = [op |-> "unicode_wrap", global_dir |-> last.global_dir,
              text |-> last.text,
              result |-> unicode_wrap(last.global_dir, last.text)]
  /\ instances' = InstancesAfter(last.global_dir)
  /\ UNCHANGED <<registry, seen, order, rthreads, bthreads>>

NextFormat ==
  \/ EstimateDirectionCall
  \/ FormatterAttrCall
  \/ FormatterMarkAfterCall
  \/ FormatterSpanWrapCall
  \/ FormatterUnicodeWrapCall
  \/ DirAttrCall
  \/ MarkAfterCall
  \/ SpanWrapCall
  \/ TextDirCall
  \/ UnicodeWrapCall

SpecFormat == InitFormat /\ [][NextFormat]_vars

\* The tokens _estimate_direction loops over in the call recorded in last.
TokensOfLast == Split(strip_html_if_needed(last.value, last.is_html))

\* C21: _estimate_direction decides from its counts: with no strong token it
\* returns LTR when a weak-LTR signal fired and NEUTRAL otherwise, so the
\* empty string is NEUTRAL; with a strong token it returns RTL exactly when
\* more than two fifths of the strong tokens are RTL and LTR otherwise, so 2
\* RTL tokens of 5 give LTR.
C21_ThresholdDecision ==
  last.op = "_estimate_direction"
  => LET counts == Counts(TokensOfLast)
     IN  /\ (counts.total_count = 0 /\ counts.has_weakly_ltr)
              => last.result = DIR_LTR
         /\ (counts.total_count = 0 /\ ~counts.has_weakly_ltr)
              => last.result = DIR_NEUTRAL
         /\ last.value = <<>> => last.result = DIR_NEUTRAL
         /\ counts.total_count > 0
              => /\ last.result \in {DIR_RTL, DIR_LTR}
                 /\ last.result = DIR_RTL
                      <=> 5 * counts.rtl_count > 2 * counts.total_count

\* 2 RTL tokens of 5 strong tokens were counted and LTR returned.
C21_Witness ==
  /\ last.op = "_estimate_direction"
  /\ Counts(TokensOfLast).total_count = 5
  /\ Counts(TokensOfLast).rtl_count = 2
  /\ last.result = DIR_LTR

\* Whether token holds a strong RTL character.
HoldsRtl(token) == \E j \in 1..Len(token) : token[j] \in RTL_CHARS

\* Whether the first strong character of token is RTL.
RtlFirst(token) ==
  \E j \in 1..Len(token) :
    /\ token[j] \in RTL_CHARS
    /\ \A k \in 1..(j - 1) : token[k] \notin LTR_CHARS

\* C22 as stated: every token that holds a strong RTL character, wherever it
\* stands, counts as an RTL token.
C22_AnyRtlCharCounts ==
  last.op = "_estimate_direction"
  => LET tokens == TokensOfLast
     IN  /\ Counts(tokens).rtl_count
              = Cardinality({i \in 1..Len(tokens) : HoldsRtl(tokens[i])})
         /\ (Len(tokens) = 1 /\ HoldsRtl(tokens[1])) => last.result = DIR_RTL

\* C22: the tokens _estimate_direction counts as RTL, in both counts, are
\* those whose first strong character is RTL, whatever follows it; the test
\* comes before the must-be-LTR, strong-LTR and digit tests, so a text of
\* one such token is RTL.
C22_FirstStrongRtlCounts ==
  last.op = "_estimate_direction"
  => LET tokens == TokensOfLast
         counts == Counts(tokens)
     IN  /\ counts.rtl_count
              = Cardinality({i \in 1..Len(tokens) : RtlFirst(tokens[i])})
         /\ counts.total_count >= counts.rtl_count
         /\ (Len(tokens) = 1 /\ RtlFirst(tokens[1])) => last.result = DIR_RTL

\* A token of an RTL character and an LTR character after it was counted RTL.
C22_Witness ==
  /\ last.op = "_estimate_direction"
  /\ last.value = <<1488, 97>>
  /\ last.result = DIR_RTL

\* C23: BidiFormatter.attr returns the empty string when content_dir is
\* neutral, unknown or the formatter's own direction, and otherwise
\* dir="rtl" for RTL content and dir="ltr" for LTR content, also in a
\* formatter of NEUTRAL direction.
C23_AttrByDirection ==
  last.op = "BidiFormatter.attr"
  => /\ (\/ last.content_dir = None
         \/ last.content_dir = IntV(DIR_NEUTRAL)
         \/ last.content_dir = IntV(last.direction))
          => last.result = StringV(<<>>)
     /\ (last.content_dir = IntV(DIR_RTL) /\ last.direction # DIR_RTL)
          => last.result = StringV(DIR_ATTR_RTL)
     /\ (last.content_dir = IntV(DIR_LTR) /\ last.direction # DIR_LTR)
          => last.result = StringV(DIR_ATTR_LTR)

\* A formatter of NEUTRAL direction returned dir="rtl" for RTL content.
C23_Witness ==
  /\ last.op = "BidiFormatter.attr"
  /\ last.direction = DIR_NEUTRAL
  /\ last.content_dir = IntV(DIR_RTL)
  /\ last.result = StringV(DIR_ATTR_RTL)

\* The direction of the last strongly directional character of text, NEUTRAL
\* when it has none.
ExitDir(text) ==
  LET strong == {i \in 1..Len(text) : text[i] \in LTR_CHARS \cup RTL_CHARS}
  IN  IF strong = {} THEN DIR_NEUTRAL
      ELSE IF text[Max(strong)] \in RTL_CHARS THEN DIR_RTL ELSE DIR_LTR

\* The mark a formatter of the given direction owes after text: that of its
\* own direction when the content or the exit of text is of the opposite
\* direction, none otherwise and none in a NEUTRAL formatter.
OwedMark(direction, content_dir, text, is_html) ==
  IF /\ direction # DIR_NEUTRAL
     /\ \/ content_dir = IntV(-direction)
        \/ ExitDir(strip_html_if_needed(text, is_html)) = -direction
    THEN IF direction = DIR_LTR THEN <<FORMAT_LRM>> ELSE <<FORMAT_RLM>>
    ELSE <<>>

Wrapped(direction, content_dir) ==
  content_dir # IntV(DIR_NEUTRAL) /\ content_dir # IntV(direction)

DirectionOf(text, is_html) ==
  IF text.kind # "str" /\ text.content_dir # None THEN text.content_dir
  ELSE IntV(estimate_direction(text.text, is_html))

\* C27: dir_attr, mark_after, span_wrap, unicode_wrap and text_dir give, for
\* a value with a known direction, the formatter's result for that direction
\* whatever the estimate for its text, and use the estimate only for a value
\* without a known direction.
C27_KnownDirectionUsed ==
  /\ last.op = "dir_attr"
     => LET html == last.is_html \/ last.text.kind = "HTML"
        IN  last.result
              = StringV(BidiFormatter_attr(Sign(last.global_dir),
                                           DirectionOf(last.text, html)))
  /\ last.op = "mark_after"
     => LET html == last.is_html \/ last.text.kind = "HTML"
        IN  last.result
              = BidiFormatter_mark_after(Sign(last.global_dir),
                  DirectionOf(last.text, html), last.text.text, html)
  /\ last.op = "span_wrap"
     => last.result
          = BidiFormatter_span_wrap(Sign(last.global_dir),
              DirectionOf(last.text, TRUE), last.text.text)
  /\ last.op = "unicode_wrap"
     => LET html == last.text.kind = "HTML"
        IN  StringV(last.result.text)
              = BidiFormatter_unicode_wrap(Sign(last.global_dir),
                  DirectionOf(last.text, html), last.text.text, html)
  /\ last.op = "text_dir"
     => last.result
          = DirectionOf(last.text, last.is_html \/ last.text.kind = "HTML")

\* dir_attr in an LTR context returned the empty string for a value of known
\* NEUTRAL direction whose text is estimated RTL.
C27_Witness ==
  /\ last.op = "dir_attr"
  /\ last.global_dir = 1
  /\ last.text.kind # "str"
  /\ last.text.content_dir = IntV(DIR_NEUTRAL)
  /\ estimate_direction(last.text.text, last.is_html) = DIR_RTL
  /\ last.result = StringV(<<>>)

----------------------------------------------------------------------------
(* SpecKeys: the delegate registry under template ids and variants that    *)
(* hold the ':' of 'key_%s:%s'.                                            *)

\* The most entries of the registry.
MaxRegistered == 2

KeyIds == {"a", "a:b", "b"}
KeyVariants == {StrV(""), StrV("c"), StrV("b:c")}
KeyPriorities == {0, 1}

\* fn_name: a unique name of the function generated at compile time.
FnNameOf(fn) == IF fn = "fnA" THEN "nameA" ELSE "nameB"

InitKeys == InitRegistry /\ RestIdle

\* register_delegate_fn; seen keeps, for each map_key, the (template_id,
\* variant) pairs registered under it.
KeysRegister ==
  \E template_id \in KeyIds, variant \in KeyVariants,
     priority \in KeyPriorities, fn \in Fns :
    LET map_key == GenDelegateId(template_id, variant)
        r == RegisterFn(registry, template_id, variant, priority, fn,
                        FnNameOf(fn))
    IN  /\ Cardinality(DOMAIN registry \cup {map_key}) <= MaxRegistered
        /\ registry' = r.reg
        /\ seen' = [k \in DOMAIN seen \cup {map_key} |->
                      IF k = map_key
                        THEN (IF k \in DOMAIN seen THEN seen[k] ELSE {})
                               \cup {<<template_id, variant>>}
                        ELSE seen[k]]
        /\ last' = [op |-> "register", template_id |-> template_id,
                    variant |-> variant, priority |-> priority, fn |-> fn,
                    fn_name |-> FnNameOf(fn), curr |-> Get(registry, map_key),
                    raised |-> r.raised]
        /\ UNCHANGED <<order, rthreads, instances, bthreads>>

\* get_delegate_fn
KeysResolve ==
  \E template_id \in KeyIds, variant \in KeyVariants,
     allow_empty_default \in BOOLEAN :
    /\ last' = [op |-> "resolve", template_id |-> template_id,
                variant |-> variant, allow_empty_default |-> allow_empty_default,
                result |-> GetDelegateFn(registry, template_id, variant,
                                         allow_empty_default)]
    /\ UNCHANGED <<registry, seen, order, rthreads, instances, bthreads>>

NextKeys == KeysRegister \/ KeysResolve

SpecKeys == InitKeys /\ [][NextKeys]_vars

\* The pairs registered so far.
RegisteredPairs == UNION {seen[k] : k \in DOMAIN seen}

\* C28: distinct (template_id, variant) pairs never share a registry slot:
\* no map_key is that of two pairs, so a registration reads and replaces
\* only the entry of its own pair, and get_delegate_fn returns a registered
\* function only when one was registered under its own pair or under its
\* template_id with the empty variant.
C28_DistinctKeysDistinctSlots ==
  /\ \A k \in DOMAIN seen : Cardinality(seen[k]) <= 1
  /\ (/\ last.op = "resolve"
      /\ last.result.kind = "return"
      /\ last.result.fn # EmptyTemplateFunction)
     => \/ <<last.template_id, last.variant>> \in RegisteredPairs
        \/ <<last.template_id, EmptyVariant>> \in RegisteredPairs

----------------------------------------------------------------------------
(* type_safe_eq with its operands exchanged.                               *)

\* list_indexof(l, item) from index i on (from 0): the index returned, or
\* the TypeError of a type_safe_eq on the way.
RECURSIVE IndexOfFrom(_, _, _)
IndexOfFrom(l, item, i) ==
  IF i >= Len(l) THEN [kind |-> "return", value |-> -1]
  ELSE LET eq == type_safe_eq(l[i + 1], item)
       IN  IF eq.kind # "return" THEN eq
           ELSE IF eq.value THEN [kind |-> "return", value |-> i]
           ELSE IndexOfFrom(l, item, i + 1)

list_indexof(l, item) == IndexOfFrom(l, item, 0)

\* list_contains(l, item)
list_contains(l, item) ==
  LET index == list_indexof(l, item)
  IN  IF index.kind # "return" THEN index
      ELSE [kind |-> "return", value |-> index.value >= 0]

\* C29: type_safe_eq is symmetric, type_safe_eq(a, b) = type_safe_eq(b, a)
\* for null, booleans, numbers and strings, so list_contains and
\* list_indexof find b in a list of a exactly when they find a in a list of
\* b.
C29_EqSymmetric ==
  (last.op = "eq" /\ Obj \notin {last.args[1], last.args[2]})
  => LET first == last.args[1]
         second == last.args[2]
     IN  /\ last.result = type_safe_eq(second, first)
         /\ list_indexof(<<first>>, second) = list_indexof(<<second>>, first)
         /\ list_contains(<<first>>, second) = list_contains(<<second>>, first)

----------------------------------------------------------------------------
(* SpecTwice: a filter helper called on a string and then on what it       *)
(* returned.                                                               *)

InitTwice ==
  /\ registry = [k \in {} |-> NoEntry]
  /\ seen = [k \in {} |-> {}]
  /\ RestIdle
  /\ \E helper \in FilterHelpers, value \in FilterInputs :
       last = [op |-> "call", helper |-> helper, value |-> value]

\* helper(value)
FilterFirst ==
  /\ last.op = "call"
  /\ last' = [op |-> "first", helper |-> last.helper, value |-> last.value,
              first |-> CallFilter(last.helper, last.value)]
  /\ UNCHANGED <<registry, seen, order, rthreads, instances, bthreads>>

\* helper(helper(value))
FilterSecond ==
  /\ last.op = "first"
  /\ last.first.kind = "return"
  /\ last' = [op |-> "second", helper |-> last.helper, value |-> last.value,
              first |-> last.first,
              second |-> CallFilter(last.helper, last.first.value)]
  /\ UNCHANGED <<registry, seen, order, rthreads, instances, bthreads>>

NextTwice == FilterFirst \/ FilterSecond

SpecTwice == InitTwice /\ [][NextTwice]_vars

\* C30: every filter helper called on what it returned returns it again: a
\* sentinel is returned for the sentinel, and what filter_normalize_uri or
\* filter_normalize_media_uri accepted and percent-encoded is accepted again
\* and not encoded once more.
C30_FilterIdempotent ==
  last.op = "second"
  => /\ last.second = last.first
     /\ last.first.value = SentinelOf(last.helper)
          => last.second.value = SentinelOf(last.helper)
     /\ (/\ last.helper \in CompositeFilters
         /\ Accepted(last.helper, last.value))
          => /\ Accepted(last.helper, last.first.value)
             /\ last.second.value = last.first.value

\* filter_normalize_uri encoded the space of an accepted value and returned
\* the encoded value as it is the second time.
C30_Witness ==
  /\ last.op = "second"
  /\ last.helper = "filter_normalize_uri"
  /\ last.value = <<97, 32>>
  /\ last.first.value = <<97, 37, 50, 48>>
  /\ last.second.value = <<97, 37, 50, 48>>

====
